---- MODULE Spec2Model ----
(***************************************************************************)
(* Model of the indexing and graph-query engine of ts-repo-prep:           *)
(*   - ensureCacheUpToDate (src/index/cache.ts): the incremental sync pass *)
(*   - the SQLite store of src/db.ts (files, exports, imports, configs,    *)
(*     file_content, foreign keys with ON DELETE CASCADE)                  *)
(*   - resolveImportPath / normalizeResolvedPath (src/resolver)            *)
(*   - IMPACT_ANALYSIS_QUERY and handleAnalyzeChangeImpact                 *)
(*   - the symbol lookup handlers of src/mcp/handlers/symbols.ts           *)
(*                                                                         *)
(* Text is modelled as a sequence of tokens, so that the textual           *)
(* operators of the code (SQL LIKE, instr, string concatenation, extname)  *)
(* are computed and not assumed.  A path such as /r/a.tsx is the sequence  *)
(* <<"/r/", "a", ".ts", "x">>: /r/a.ts is a textual prefix of it.          *)
(***************************************************************************)
EXTENDS Integers, Sequences, FiniteSets, TLC

(***************************************************************************)
(* Bounds of the model.                                                    *)
(***************************************************************************)
MaxMtime == 2
MaxEdits == 2
MaxPasses == 2
MaxDepthArg == 4

(***************************************************************************)
(* Text helpers.                                                           *)
(***************************************************************************)
RootDir == <<"/r/">>

\* instr(hay, needle) # 0 : needle occurs in hay as a contiguous run.
IsSubstr(needle, hay) ==
    \E i \in 0..(Len(hay) - Len(needle)) :
        SubSeq(hay, i + 1, i + Len(needle)) = needle

\* ASCII lower-casing of one token, as SQLite LIKE folds case.
Lower(c) ==
    CASE c = "S" -> "s"
      [] c = "T" -> "t"
      [] OTHER -> c

\* SQL LIKE: % matches any run, _ any one character, the rest is compared
\* ignoring ASCII case.
RECURSIVE Like(_, _)
Like(pat, txt) ==
    IF pat = <<>> THEN txt = <<>>
    ELSE IF Head(pat) = "%"
         THEN Like(Tail(pat), txt) \/ (txt # <<>> /\ Like(pat, Tail(txt)))
         ELSE /\ txt # <<>>
              /\ (Head(pat) = "_" \/ Lower(Head(pat)) = Lower(Head(txt)))
              /\ Like(Tail(pat), Tail(txt))

\* The pattern `%${symbolName}%` built by the handlers.
LikePattern(symbolName) == <<"%">> \o symbolName \o <<"%">>

\* Array.prototype.join(', ')
RECURSIVE Join(_)
Join(parts) ==
    IF parts = <<>> THEN <<>>
    ELSE IF Len(parts) = 1 THEN parts[1]
    ELSE parts[1] \o <<", ">> \o Join(Tail(parts))

\* Lexicographic order of two texts under an order of the tokens (the BINARY
\* collation of a TEXT column).
TokenRank(c) ==
    CASE c = "/r/" -> 1
      [] c = ".ts" -> 2
      [] c = ".yml" -> 3
      [] c = "a" -> 4
      [] c = "b" -> 5
      [] c = "c" -> 6
      [] c = "x" -> 7
      [] OTHER -> 8

RECURSIVE TextLess(_, _)
TextLess(s, t) ==
    IF t = <<>> THEN FALSE
    ELSE IF s = <<>> THEN TRUE
    ELSE IF Head(s) = Head(t) THEN TextLess(Tail(s), Tail(t))
    ELSE TokenRank(Head(s)) < TokenRank(Head(t))

(***************************************************************************)
(* Paths of the repository /r.                                             *)
(***************************************************************************)
PathA  == <<"/r/", "a", ".ts">>
PathAX == <<"/r/", "a", ".ts", "x">>
PathB  == <<"/r/", "b", ".ts">>
PathC  == <<"/r/", "c", ".yml">>
Paths  == {PathA, PathAX, PathB, PathC}

NoPath == <<>>

\* First tokens of specifiers that start with '@' and not with '@/'
ScopeTokens == {"@app/"}

\* path.extname
extname(p) ==
    IF Len(p) >= 2 /\ p[Len(p)] = "x" /\ p[Len(p) - 1] \in {".ts", ".js"}
    THEN <<p[Len(p) - 1], "x">>
    ELSE IF Len(p) >= 1 /\ p[Len(p)] \in {".ts", ".js", ".yml", ".json", ".node"}
         THEN <<p[Len(p)]>>
         ELSE <<>>

\* fileName.endsWith('.ts') || fileName.endsWith('.tsx')
isCode(p) == extname(p) \in {<<".ts">>, <<".ts", "x">>}

(***************************************************************************)
(* The file system.  disk[p] is Absent or an entry with the modification   *)
(* time, the parsed shape of the text (the SWC module body for a code      *)
(* file, the extracted entries for a config file) and a fault: "syntax"    *)
(* makes swc.parseSync throw, "unreadable" makes fs.readFileSync throw.    *)
(***************************************************************************)
Absent == [mtime |-> 0, fault |-> "absent", ast |-> <<>>, cfg |-> <<>>]

\* Regular files are the entries of the disk; a directory exists when it is
\* the repository root, the file-system root or holds a file.
isFile(disk, p) == p \in DOMAIN disk /\ disk[p] # Absent
isDirectory(disk, p) ==
    \/ p \in {RootDir, <<"/">>}
    \/ \E f \in DOMAIN disk :
          /\ disk[f] # Absent
          /\ Len(f) > Len(p) + 1
          /\ SubSeq(f, 1, Len(p)) = p
          /\ f[Len(p) + 1] = "/"
existsSync(disk, p) == isFile(disk, p) \/ isDirectory(disk, p)

\* path.dirname: the path up to its last separator
dirname(p) ==
    LET seps == {k \in 1..Len(p) : p[k] = "/"}
    IN IF p \in {RootDir, <<"/">>} THEN <<"/">>
       ELSE IF seps = {} THEN SubSeq(p, 1, 1)
       ELSE SubSeq(p, 1, (CHOOSE k \in seps : \A j \in seps : j <= k) - 1)

\* path.join / path.resolve of a directory and a relative path
join(dir, rest) ==
    IF rest = <<".">> THEN dir
    ELSE IF dir[Len(dir)] \in {"/r/", "/"} THEN dir \o rest ELSE dir \o <<"/">> \o rest

(***************************************************************************)
(* src/resolver/path-normalizer.ts                                         *)
(***************************************************************************)
SUPPORTED_EXTENSIONS_ExactFirst ==
    << <<>>, <<".ts">>, <<".ts", "x">>, <<".d", ".ts">>, <<".js">>, <<".js", "x">> >>

SUPPORTED_EXTENSIONS ==
    << <<".ts">>, <<".ts", "x">>, <<".d", ".ts">>, <<".js">>, <<".js", "x">>, <<>> >>

INDEX_EXTENSIONS == << <<".ts">>, <<".ts", "x">>, <<".js">>, <<".js", "x">> >>

\* The first candidate of the list that is an existing file, or NoPath.
RECURSIVE FirstFile(_, _)
FirstFile(disk, cands) ==
    IF cands = <<>> THEN NoPath
    ELSE IF existsSync(disk, Head(cands)) /\ isFile(disk, Head(cands))
         THEN Head(cands)
         ELSE FirstFile(disk, Tail(cands))

normalizeResolvedPath(disk, resolvedPath) ==
    LET ext == extname(resolvedPath)
        swapped ==
            IF ext = <<".js">> \/ ext = <<".js", "x">>
            THEN LET basePath == SubSeq(resolvedPath, 1, Len(resolvedPath) - Len(ext))
                     tsExtensions == IF ext = <<".js", "x">>
                                     THEN << <<".ts", "x">>, <<".ts">> >>
                                     ELSE << <<".ts">>, <<".ts", "x">> >>
                 IN FirstFile(disk, << basePath \o tsExtensions[1],
                                       basePath \o tsExtensions[2],
                                       resolvedPath >>)
            ELSE NoPath
        probed == FirstFile(disk, [i \in 1..Len(SUPPORTED_EXTENSIONS) |->
                                        resolvedPath \o SUPPORTED_EXTENSIONS[i]])
        indexPath(i) == join(resolvedPath, <<"index">>) \o INDEX_EXTENSIONS[i]
        indexHits == {i \in 1..Len(INDEX_EXTENSIONS) : existsSync(disk, indexPath(i))}
        index == IF existsSync(disk, resolvedPath) /\ isDirectory(disk, resolvedPath)
                    /\ indexHits # {}
                 THEN indexPath(CHOOSE i \in indexHits : \A j \in indexHits : i <= j)
                 ELSE NoPath
    IN IF swapped # NoPath THEN swapped
       ELSE IF probed # NoPath THEN probed
       ELSE index

(***************************************************************************)
(* src/resolver/config-finder.ts, src/resolver/workspace-scanner.ts,       *)
(* src/resolver/index.ts, and loadConfig / createMatchPath of the          *)
(* tsconfig-paths package (4.x) that index.ts calls.                       *)
(* disk[p].cfg of a tsconfig.json is [baseUrl, paths]: baseUrl is NoPath   *)
(* when compilerOptions has none, paths a sequence of [pattern, target].   *)
(* disk[p].cfg of a package.json is [name, main, workspaces, fileDeps];    *)
(* fileDeps are the dependencies whose version starts with "file:".        *)
(* A fault "syntax" is a file that JSON.parse / JSON5.parse rejects.       *)
(***************************************************************************)
Throws == <<"!throws">>

TSCONFIG == <<"tsconfig", ".json">>
PACKAGE_JSON == <<"package", ".json">>

\* The directories the upward walks visit from startPath: the start
\* directory and its ancestors below the file-system root.
WalkUp(disk, startPath) ==
    LET start == IF isDirectory(disk, startPath) THEN startPath ELSE dirname(startPath)
    IN {SubSeq(start, 1, k) :
           k \in {k \in 1..Len(start) : k = 1 \/ k = Len(start) \/ start[k + 1] = "/"}}
       \ {<<"/">>}

findNearestTsConfig_ThrowsWhenNone(disk, startPath) ==
    IF ~ existsSync(disk, startPath) THEN Throws
    ELSE LET hits == {d \in WalkUp(disk, startPath) : existsSync(disk, join(d, TSCONFIG))}
         IN IF hits = {} THEN Throws
            ELSE CHOOSE d \in hits : \A e \in hits : Len(e) <= Len(d)

\* fs.statSync(startPath) throws when startPath does not exist.
findNearestTsConfig(disk, startPath) ==
    IF ~ existsSync(disk, startPath) THEN Throws
    ELSE LET hits == {d \in WalkUp(disk, startPath) : existsSync(disk, join(d, TSCONFIG))}
         IN IF hits = {} THEN NoPath
            ELSE CHOOSE d \in hits : \A e \in hits : Len(e) <= Len(d)

\* JSON.parse(fs.readFileSync(p)): CanReadJson when it does not throw
CanReadJson(disk, p) == isFile(disk, p) /\ disk[p].fault = "ok"
ReadJson(disk, p) == disk[p].cfg

findWorkspaceRoot(disk, startPath) ==
    LET hits == {d \in WalkUp(disk, startPath) :
                    /\ existsSync(disk, join(d, PACKAGE_JSON))
                    /\ CanReadJson(disk, join(d, PACKAGE_JSON))
                    /\ ReadJson(disk, join(d, PACKAGE_JSON)).workspaces # <<>>}
    IN IF hits = {} THEN NoPath
       ELSE CHOOSE d \in hits : \A e \in hits : Len(e) <= Len(d)

DEFAULT_MAIN == <<"dist", "/", "index", ".js">>

\* fs.readdirSync(dir): the names directly under dir
readdirSync(disk, dir) ==
    {<<f[Len(join(dir, <<>>)) + 1]>> : f \in {f \in DOMAIN disk :
        /\ disk[f] # Absent
        /\ Len(f) > Len(join(dir, <<>>))
        /\ SubSeq(f, 1, Len(join(dir, <<>>))) = join(dir, <<>>)}}

\* The packages of the "workspaces" patterns, as [name, path, main].  The
\* model's patterns are <<dir, "/*">>; pattern.replace('/*', '') is dir.
scanWorkspacePackages(disk, workspaceRoot, packageJson) ==
    LET notStar(t) == t # "/*"
        scan(pattern) ==
            LET fullBaseDir == join(workspaceRoot, SelectSeq(pattern, notStar))
            IN IF ~ existsSync(disk, fullBaseDir) THEN {}
               ELSE {[name |-> ReadJson(disk, join(join(fullBaseDir, dir), PACKAGE_JSON)).name,
                      path |-> join(fullBaseDir, dir),
                      main |-> IF ReadJson(disk, join(join(fullBaseDir, dir), PACKAGE_JSON)).main # NoPath
                               THEN ReadJson(disk, join(join(fullBaseDir, dir), PACKAGE_JSON)).main
                               ELSE DEFAULT_MAIN] :
                     dir \in {dir \in readdirSync(disk, fullBaseDir) :
                        /\ existsSync(disk, join(join(fullBaseDir, dir), PACKAGE_JSON))
                        /\ CanReadJson(disk, join(join(fullBaseDir, dir), PACKAGE_JSON))
                        /\ ReadJson(disk, join(join(fullBaseDir, dir), PACKAGE_JSON)).name # NoPath}}
    IN UNION {scan(packageJson.workspaces[k]) : k \in 1..Len(packageJson.workspaces)}

\* The "file:" dependencies of a package.json whose target has a readable
\* package.json, as [name, path, main].
scanFileDependencies(disk, pkgJsonPath) ==
    LET pkg == ReadJson(disk, pkgJsonPath)
        target(dep) == join(join(dirname(pkgJsonPath), dep.path), PACKAGE_JSON)
    IN IF ~ CanReadJson(disk, pkgJsonPath) THEN {}
       ELSE {[name |-> pkg.fileDeps[k].name,
              path |-> join(dirname(pkgJsonPath), pkg.fileDeps[k].path),
              main |-> IF ReadJson(disk, target(pkg.fileDeps[k])).main # NoPath
                       THEN ReadJson(disk, target(pkg.fileDeps[k])).main
                       ELSE DEFAULT_MAIN] :
             k \in {k \in 1..Len(pkg.fileDeps) :
                /\ existsSync(disk, target(pkg.fileDeps[k]))
                /\ CanReadJson(disk, target(pkg.fileDeps[k]))}}

\* tsconfig-paths loadConfig(cwd) for a directory that holds a tsconfig.json:
\* it throws when the file is malformed, otherwise the success result, whose
\* absoluteBaseUrl is resolve(dirname(tsconfig), baseUrl || "").
loadConfig(disk, configDir) ==
    LET file == join(configDir, TSCONFIG)
    IN IF ~ isFile(disk, file) THEN [resultType |-> "failed"]
       ELSE IF disk[file].fault # "ok" THEN [resultType |-> "throws"]
       ELSE [resultType |-> "success",
             configFileAbsolutePath |-> file,
             absoluteBaseUrl |-> IF disk[file].cfg.baseUrl = NoPath THEN configDir
                                 ELSE join(configDir, disk[file].cfg.baseUrl),
             paths |-> disk[file].cfg.paths,
             addMatchAll |-> disk[file].cfg.baseUrl # NoPath]

\* lines 28-100.  The result is a ResolverConfig, null, or an exception
\* leaving the function.  The mapping entries are those of
\* createMatchPath: one per paths pattern (the model's configurations hold
\* at most one, so their order by prefix length is immaterial) and, with
\* addMatchAll, the pattern * mapped to baseUrl/*.
initResolver(disk, searchPath) ==
    LET workspacePackages(configDir, workspaceRoot) ==
            LET scanned(rootJson) ==
                    IF workspaceRoot # NoPath /\ existsSync(disk, rootJson)
                       /\ CanReadJson(disk, rootJson)
                    THEN scanWorkspacePackages(disk, workspaceRoot, ReadJson(disk, rootJson))
                    ELSE {}
                fileDeps(localPkgJson) ==
                    IF existsSync(disk, localPkgJson)
                    THEN scanFileDependencies(disk, localPkgJson)
                    ELSE {}
                merge(ws, deps) ==
                    {w \in ws : \A d \in deps : d.name # w.name} \cup deps
            IN merge(scanned(join(workspaceRoot, PACKAGE_JSON)),
                     fileDeps(join(configDir, PACKAGE_JSON)))
        resolverConfig(configDir, config, baseUrl) ==
            [resolver |-> "config",
             baseUrl |-> baseUrl,
             mappings |-> [k \in 1..Len(config.paths) |->
                              [pattern |-> config.paths[k].pattern,
                               target |-> join(baseUrl, config.paths[k].target)]]
                          \o (IF config.addMatchAll
                              THEN << [pattern |-> <<"*">>, target |-> join(baseUrl, <<"*">>)] >>
                              ELSE <<>>),
             workspacePackages |->
                 workspacePackages(configDir, findWorkspaceRoot(disk, configDir))]
        loaded(configDir, config) ==
            IF config.resultType = "throws" THEN [resolver |-> "throws"]
            ELSE IF config.resultType = "failed" THEN [resolver |-> "null"]
            ELSE resolverConfig(configDir, config,
                                IF config.absoluteBaseUrl = NoPath /\ config.paths # <<>>
                                THEN dirname(config.configFileAbsolutePath)
                                ELSE config.absoluteBaseUrl)
        found(configDir) ==
            IF configDir = Throws THEN [resolver |-> "throws"]
            ELSE IF configDir = NoPath THEN [resolver |-> "null"]
            ELSE loaded(configDir, loadConfig(disk, configDir))
    IN found(findNearestTsConfig(disk, searchPath))

\* Object.keys(require.extensions), the default extension list of matchPath,
\* belongs to the process that runs the program: the published entry point
\* runs under node, the development command under tsx, which registers
\* loaders for TypeScript sources.
VARIABLE requireExtensions

\* resolverCache is the module-level Map of index.ts line 21, from a
\* configuration directory to the ResolverConfig (or null) stored for it.
\* firstContext records, for each configuration directory, what the first
\* initResolver call that reached it returned since the cache was last
\* cleared of it (history).
VARIABLES resolverCache, firstContext

resolverVars == <<requireExtensions, resolverCache, firstContext>>

\* lines 28-100 with the cache of lines 36-38, 43, 98: the value returned
\* and the cache afterwards.  initResolver above is the computation of a
\* call that finds nothing cached.
initResolverCached(cache, disk, searchPath) ==
    LET hit(configDir) == [value |-> cache[configDir], cache |-> cache]
        miss(configDir, fresh) ==
            [value |-> fresh,
             cache |-> IF fresh.resolver = "throws" THEN cache
                       ELSE [d \in DOMAIN cache \cup {configDir} |->
                                IF d = configDir THEN fresh ELSE cache[d]]]
        found(configDir) ==
            IF configDir = Throws THEN [value |-> [resolver |-> "throws"], cache |-> cache]
            ELSE IF configDir = NoPath THEN [value |-> [resolver |-> "null"], cache |-> cache]
            ELSE IF configDir \in DOMAIN cache THEN hit(configDir)
            ELSE miss(configDir, initResolver(disk, searchPath))
    IN found(findNearestTsConfig(disk, searchPath))

\* lines 165-171; NoPath stands for an omitted repoPath
clearResolverCache(cache, repoPath) ==
    IF repoPath # NoPath
    THEN [d \in DOMAIN cache \ {repoPath} |-> cache[d]]
    ELSE << >>

NodeExtensions == << <<".js">>, <<".json">>, <<".node">> >>
TsxExtensions == NodeExtensions \o << <<".ts">>, <<".ts", "x">>, <<".js", "x">> >>

\* resolver.matchPath(requestedModule): the paths to try of every mapping
\* whose pattern matches, in order (the file, the file plus an extension,
\* the main file of its package.json, its index file); the first that is a
\* file gives the result, with the extension or the index file stripped.
\* NoPath stands for undefined.
matchPath(disk, resolver, requestedModule) ==
    LET starOf(pattern) == CHOOSE k \in 1..Len(pattern) : pattern[k] = "*"
        matches(m) ==
            \/ m.pattern = requestedModule
            \/ /\ \E k \in 1..Len(m.pattern) : m.pattern[k] = "*"
               /\ Len(requestedModule) >= Len(m.pattern)
               /\ SubSeq(requestedModule, 1, starOf(m.pattern) - 1)
                     = SubSeq(m.pattern, 1, starOf(m.pattern) - 1)
               /\ SubSeq(requestedModule,
                         Len(requestedModule) - (Len(m.pattern) - starOf(m.pattern)) + 1,
                         Len(requestedModule))
                     = SubSeq(m.pattern, starOf(m.pattern) + 1, Len(m.pattern))
        starMatch(m) ==
            IF m.pattern = requestedModule THEN <<>>
            ELSE SubSeq(requestedModule, starOf(m.pattern),
                        Len(requestedModule) - (Len(m.pattern) - starOf(m.pattern)))
        physicalPath(m) ==
            IF \E k \in 1..Len(m.target) : m.target[k] = "*"
            THEN SubSeq(m.target, 1, starOf(m.target) - 1) \o starMatch(m)
                    \o SubSeq(m.target, starOf(m.target) + 1, Len(m.target))
            ELSE m.target
        mainOf(pp) ==
            LET pkg == ReadJson(disk, join(pp, PACKAGE_JSON))
            IN IF ~ CanReadJson(disk, join(pp, PACKAGE_JSON)) THEN NoPath
               ELSE IF pkg.main = NoPath THEN NoPath
               ELSE join(pp, pkg.main)
        tryPaths(m) ==
            LET pp == physicalPath(m)
            IN << [probe |-> pp, out |-> pp] >>
               \o [i \in 1..Len(requireExtensions) |->
                      [probe |-> pp \o requireExtensions[i], out |-> pp]]
               \o << [probe |-> mainOf(pp), out |-> mainOf(pp)] >>
               \o [i \in 1..Len(requireExtensions) |->
                      [probe |-> join(pp, <<"index">>) \o requireExtensions[i], out |-> pp]]
        RECURSIVE all(_)
        all(ms) == IF ms = <<>> THEN <<>>
                   ELSE (IF matches(Head(ms)) THEN tryPaths(Head(ms)) ELSE <<>>)
                        \o all(Tail(ms))
        tries == IF Head(requestedModule) = "./" THEN <<>> ELSE all(resolver.mappings)
        found == {k \in 1..Len(tries) : isFile(disk, tries[k].probe)}
    IN IF found = {} THEN NoPath
       ELSE tries[CHOOSE k \in found : \A j \in found : k <= j].out

\* lines 109-159, with resolver_ the value that initResolver returns to it.
\* A specifier is relative when it starts with '.', here the token "./"; it
\* starts with '@' but not with '@/' when its first token is a scope such
\* as "@app/".
resolveImportPathWith(disk, importSpecifier, importingFilePath, resolver_) ==
    LET first(a, b) == IF a # NoPath THEN a ELSE b
        entry(pkgs, pkg) ==
            IF pkgs = {} THEN NoPath
            ELSE IF existsSync(disk, join(pkg.path, <<"src", "/", "index", ".ts">>))
            THEN join(pkg.path, <<"src", "/", "index", ".ts">>)
            ELSE normalizeResolvedPath(disk, join(pkg.path, pkg.main))
        workspace(pkgs) == entry(pkgs, CHOOSE w \in pkgs : TRUE)
        nonAlias(resolver) ==
            first(IF Head(importSpecifier) \notin ScopeTokens
                  THEN normalizeResolvedPath(disk, join(resolver.baseUrl, importSpecifier))
                  ELSE NoPath,
                  workspace({w \in resolver.workspacePackages : w.name = importSpecifier}))
        alias(resolver, aliasResolved) ==
            IF aliasResolved # NoPath THEN normalizeResolvedPath(disk, aliasResolved)
            ELSE nonAlias(resolver)
        with(resolver) ==
            IF resolver.resolver = "throws" THEN Throws
            ELSE IF resolver.resolver = "null" THEN NoPath
            ELSE alias(resolver, matchPath(disk, resolver, importSpecifier))
    IN IF importSpecifier # <<>> /\ Head(importSpecifier) = "./"
       THEN normalizeResolvedPath(disk, join(dirname(importingFilePath), Tail(importSpecifier)))
       ELSE with(resolver_)

\* resolveImportPath in a process whose resolverCache is empty.
resolveImportPath(disk, importSpecifier, importingFilePath) ==
    resolveImportPathWith(disk, importSpecifier, importingFilePath,
                          initResolver(disk, importingFilePath))

(***************************************************************************)
(* src/resolver/diagnostics.ts, diagnoseResolution (lines 24-113): the     *)
(* diagnostic, or an exception leaving the function (initResolver threw).  *)
(***************************************************************************)
\* A first token that starts with '@': a scope, or the alias prefix "@/".
AtTokens == ScopeTokens \cup {"@/"}

Diagnostic(resolved, resolvedPath, error) ==
    [resolved |-> resolved, resolvedPath |-> resolvedPath, error |-> error]

diagnoseResolution(disk, importSpecifier, importingFilePath) ==
    LET ok(p) == Diagnostic(TRUE, p, "")
        failed(error) == Diagnostic(FALSE, NoPath, error)
        fallback ==
            IF Head(importSpecifier) \in AtTokens
            THEN failed("Path alias not found in tsconfig.json paths")
            ELSE failed("Module not found (treated as external)")
        entry(pkg, entryPoint) ==
            IF existsSync(disk, join(pkg.path, <<"src", "/", "index", ".ts">>))
            THEN ok(join(pkg.path, <<"src", "/", "index", ".ts">>))
            ELSE IF entryPoint # NoPath THEN ok(entryPoint)
            ELSE failed("Workspace package found but entry point not found")
        workspace(pkgs) ==
            IF pkgs = {} THEN fallback
            ELSE entry(CHOOSE w \in pkgs : TRUE,
                       normalizeResolvedPath(disk, join((CHOOSE w \in pkgs : TRUE).path,
                                                        (CHOOSE w \in pkgs : TRUE).main)))
        baseUrl(resolver, normalized) ==
            IF Head(importSpecifier) \notin AtTokens /\ normalized # NoPath
            THEN ok(normalized)
            ELSE workspace({w \in resolver.workspacePackages : w.name = importSpecifier})
        alias(resolver, aliasResolved, normalized) ==
            IF aliasResolved # NoPath
            THEN IF normalized # NoPath THEN ok(normalized)
                 ELSE failed("Path alias matched but file does not exist")
            ELSE baseUrl(resolver,
                         normalizeResolvedPath(disk, join(resolver.baseUrl, importSpecifier)))
        matched(resolver, aliasResolved) ==
            alias(resolver, aliasResolved,
                  IF aliasResolved # NoPath THEN normalizeResolvedPath(disk, aliasResolved)
                  ELSE NoPath)
        with(resolver) ==
            IF resolver.resolver = "throws" THEN Diagnostic(FALSE, Throws, "throws")
            ELSE IF resolver.resolver = "null" THEN failed("No tsconfig.json found")
            ELSE matched(resolver, matchPath(disk, resolver, importSpecifier))
        fromDir(normalized) ==
            IF normalized = NoPath THEN failed("File not found at relative path")
            ELSE ok(normalized)
    IN IF importSpecifier # <<>> /\ Head(importSpecifier) = "./"
       THEN fromDir(normalizeResolvedPath(disk, join(dirname(importingFilePath),
                                                     Tail(importSpecifier))))
       ELSE with(initResolver(disk, importingFilePath))

(***************************************************************************)
(* The SWC module body of a code file, and src/parser/ast-walker.ts.       *)
(***************************************************************************)
NoSource == <<>>

Item(type, source, specs, kind, name, line, endLine, members) ==
    [type |-> type, source |-> source, specs |-> specs, kind |-> kind,
     name |-> name, line |-> line, endLine |-> endLine, members |-> members]

\* import <specs> from <source>
ImportDecl(source, specs) ==
    Item("ImportDeclaration", source, specs, "", <<>>, 0, 0, <<>>)
\* export * from <source>
ExportAll(source, line) ==
    Item("ExportAllDeclaration", source, <<>>, "", <<>>, line, line, <<>>)
\* export { <specs> }  or  export { <specs> } from <source>
ExportNamed(specs, source, line) ==
    Item("ExportNamedDeclaration", source, specs, "", <<>>, line, line, <<>>)
\* export function/class/const <name> ...
ExportDecl(kind, name, line, endLine, members) ==
    Item("ExportDeclaration", NoSource, <<>>, kind, name, line, endLine, members)

Named(n)   == [stype |-> "ImportSpecifier", local |-> n]
Default(n) == [stype |-> "ImportDefaultSpecifier", local |-> n]
Star(n)    == [stype |-> "ImportNamespaceSpecifier", local |-> n]
Exported(n) == [stype |-> "ExportSpecifier", local |-> n]

Member(name, kind, line, endLine) ==
    [name |-> name, kind |-> kind, line |-> line, endLine |-> endLine]

specifierName(s) ==
    IF s.stype = "ImportDefaultSpecifier" THEN <<"default">>
    ELSE IF s.stype = "ImportNamespaceSpecifier" THEN <<"*">>
    ELSE IF s.local # <<>> THEN s.local ELSE <<"*">>

RECURSIVE extractImports(_)
extractImports(moduleBody) ==
    IF moduleBody = <<>> THEN <<>>
    ELSE LET item == Head(moduleBody)
             here ==
                 IF item.type = "ImportDeclaration"
                 THEN << [module |-> item.source,
                          name |-> Join([i \in 1..Len(item.specs) |->
                                            specifierName(item.specs[i])])] >>
                 ELSE IF item.type = "ExportAllDeclaration"
                 THEN << [module |-> item.source, name |-> <<"*">>] >>
                 ELSE <<>>
         IN here \o extractImports(Tail(moduleBody))

Exp(name, kind, line, endLine, members) ==
    [name |-> name, kind |-> kind, line |-> line, endLine |-> endLine,
     members |-> members]

RECURSIVE extractExports(_)
extractExports(moduleBody) ==
    IF moduleBody = <<>> THEN <<>>
    ELSE LET item == Head(moduleBody)
             here ==
                 CASE item.type = "ExportDeclaration" ->
                        << Exp(item.name, item.kind, item.line, item.endLine,
                               IF item.kind \in {"ClassDeclaration", "ClassExpression"}
                               THEN item.members ELSE <<>>) >>
                   [] item.type = "ExportNamedDeclaration" ->
                        [i \in 1..Len(item.specs) |->
                            Exp(item.specs[i].local, "ExportSpecifier",
                                item.line, item.endLine, <<>>)]
                   [] item.type = "TsInterfaceDeclaration" ->
                        << Exp(item.name, "TsInterfaceDeclaration", item.line,
                               item.endLine, item.members) >>
                   [] item.type = "ExportDefaultDeclaration" ->
                        << Exp(<<"default">>, "DefaultExport", item.line,
                               item.endLine, item.members) >>
                   [] item.type = "ExportAllDeclaration" ->
                        << Exp(<<"*">>, "ExportAllDeclaration", item.line,
                               item.endLine, <<>>) >>
                   [] OTHER -> <<>>
         IN here \o extractExports(Tail(moduleBody))

(***************************************************************************)
(* src/parser/index.ts parseFile, src/config-parser.ts parseConfigFile and *)
(* the parse task of ensureCacheUpToDate.  "" stands for an undefined      *)
(* classification, <<>> for an undefined or empty list.                    *)
(***************************************************************************)
ParseOut(exports, imports, configs, classification) ==
    [exports |-> exports, imports |-> imports, configs |-> configs,
     classification |-> classification]

\* Both the read failure and the syntax error are caught inside parseFile.
parseFile(disk, filePath) ==
    LET e == disk[filePath]
    IN IF e.fault \in {"absent", "unreadable"} THEN ParseOut(<<>>, <<>>, <<>>, "")
       ELSE IF e.fault = "syntax" THEN ParseOut(<<>>, <<>>, <<>>, "")
       ELSE ParseOut(extractExports(e.ast), extractImports(e.ast), <<>>, "Code")

\* parseConfigFile reads the file without a try: the caller sees the throw.
parseConfigFile(disk, filePath) ==
    ParseOut(<<>>, <<>>, disk[filePath].cfg, "Configuration")

\* The text of a file, as fs.readFileSync returns it.
FileText(e) == [ast |-> e.ast, cfg |-> e.cfg, fault |-> e.fault]
EmptyText == [ast |-> <<>>, cfg |-> <<>>, fault |-> "empty"]

ResultItem(meta, out, content, kind) ==
    [meta |-> meta, exports |-> out.exports, imports |-> out.imports,
     configs |-> out.configs, classification |-> out.classification,
     content |-> content, kind |-> kind]

\* parseTask without the catch block: a failed read escapes the task.
parseTask_NoCatch(disk, meta) ==
    LET e == disk[meta.path]
        readThrows == e.fault \in {"absent", "unreadable"}
        thrown == ResultItem(meta, ParseOut(<<>>, <<>>, <<>>, ""), EmptyText, "throw")
    IN IF isCode(meta.path)
       THEN IF readThrows THEN thrown
            ELSE ResultItem(meta, parseFile(disk, meta.path), FileText(e), "code")
       ELSE IF readThrows THEN thrown
            ELSE ResultItem(meta, parseConfigFile(disk, meta.path), FileText(e), "config")

\* One task of parseTasks: the try block and its catch.
parseTask(disk, meta) ==
    LET e == disk[meta.path]
        readThrows == e.fault \in {"absent", "unreadable"}
        errorItem == ResultItem(meta, ParseOut(<<>>, <<>>, <<>>, ""), EmptyText, "error")
    IN IF isCode(meta.path)
       THEN IF readThrows THEN errorItem
            ELSE ResultItem(meta, parseFile(disk, meta.path), FileText(e), "code")
       ELSE IF readThrows THEN errorItem
            ELSE ResultItem(meta, parseConfigFile(disk, meta.path), FileText(e), "config")

(***************************************************************************)
(* The store: the tables of initDB.  better-sqlite3 enforces foreign keys, *)
(* so ON DELETE CASCADE acts on every delete of a files row.  seqE, seqI   *)
(* and seqC are the AUTOINCREMENT sequences of exports, imports, configs.  *)
(* The column last_scanned_at (Date.now()) is read by no operation and is  *)
(* left out, as are signature, doc and capabilities.                       *)
(***************************************************************************)
EmptyDB ==
    [files |-> {}, exports |-> {}, imports |-> {}, configs |-> {},
     content |-> {}, seqE |-> 0, seqI |-> 0, seqC |-> 0]

NULL == 0

FilePaths(d) == {f.path : f \in d.files}

\* deleteFile with no cascade from files to file_content.
deleteFile_KeepContent(d, p) ==
    LET gone == {e \in d.exports : e.file_path = p}
        goneIds == {e.id : e \in gone}
        children == {e \in d.exports : e.parent_id \in goneIds}
    IN [d EXCEPT !.files = {f \in @ : f.path # p},
                 !.exports = (@ \ gone) \ children,
                 !.imports = {i \in @ : i.file_path # p},
                 !.configs = {c \in @ : c.file_path # p}]

\* deleteFile on a connection that does not enforce foreign keys.
deleteFile_NoCascade(d, p) ==
    [d EXCEPT !.files = {f \in @ : f.path # p}]

\* DELETE FROM files WHERE path = ?  with the cascades of the schema
deleteFile(d, p) ==
    LET gone == {e \in d.exports : e.file_path = p}
        goneIds == {e.id : e \in gone}
        children == {e \in d.exports : e.parent_id \in goneIds}
    IN [d EXCEPT !.files = {f \in @ : f.path # p},
                 !.exports = (@ \ gone) \ children,
                 !.imports = {i \in @ : i.file_path # p},
                 !.configs = {c \in @ : c.file_path # p},
                 !.content = {c \in @ : c.file_path # p}]

\* INSERT OR REPLACE INTO files: a row of the same path is deleted first
insertFile(d, path, mtime, classification) ==
    LET base == IF path \in FilePaths(d) THEN deleteFile(d, path) ELSE d
    IN [base EXCEPT !.files = @ \cup
            {[path |-> path, mtime |-> mtime, classification |-> classification]}]

\* The parent identity read before the parent row was inserted.
insertExport_StaleParent(d, file_path, e, parent_id) ==
    [d EXCEPT !.seqE = @ + 1,
              !.exports = @ \cup
                 {[id |-> d.seqE + 1, file_path |-> file_path, name |-> e.name,
                   kind |-> e.kind, start_line |-> e.line,
                   end_line |-> IF e.endLine # 0 THEN e.endLine ELSE e.line,
                   parent_id |-> IF parent_id = NULL THEN NULL ELSE parent_id - 1]}]

insertExport(d, file_path, e, parent_id) ==
    [d EXCEPT !.seqE = @ + 1,
              !.exports = @ \cup
                 {[id |-> d.seqE + 1, file_path |-> file_path, name |-> e.name,
                   kind |-> e.kind, start_line |-> e.line,
                   end_line |-> IF e.endLine # 0 THEN e.endLine ELSE e.line,
                   parent_id |-> parent_id]}]

insertImport(d, file_path, module, name, resolved_path) ==
    [d EXCEPT !.seqI = @ + 1,
              !.imports = @ \cup
                 {[id |-> d.seqI + 1, file_path |-> file_path,
                   module_specifier |-> module, imported_symbols |-> name,
                   resolved_path |-> resolved_path]}]

insertConfig(d, file_path, c) ==
    [d EXCEPT !.seqC = @ + 1,
              !.configs = @ \cup
                 {[id |-> d.seqC + 1, file_path |-> file_path, key |-> c.key,
                   value |-> c.value, kind |-> c.kind]}]

insertContent(d, file_path, content) ==
    [d EXCEPT !.content = @ \cup {[file_path |-> file_path, content |-> content]}]

(***************************************************************************)
(* The body of writeTransaction for one item (cache.ts 101-166).           *)
(***************************************************************************)
RECURSIVE writeMembers(_, _, _, _)
writeMembers(d, path, members, parentId) ==
    IF members = <<>> THEN d
    ELSE writeMembers(insertExport(d, path, Head(members), parentId),
                      path, Tail(members), parentId)

RECURSIVE writeExports(_, _, _)
writeExports(d, path, exports) ==
    IF exports = <<>> THEN d
    ELSE LET exp == Head(exports)
             d1 == insertExport(d, path, exp, NULL)
             parentId == d1.seqE
             d2 == IF Len(exp.members) > 0
                   THEN writeMembers(d1, path, exp.members, parentId)
                   ELSE d1
         IN writeExports(d2, path, Tail(exports))

RECURSIVE writeImports(_, _, _, _)
writeImports(d, disk, path, imports) ==
    IF imports = <<>> THEN d
    ELSE LET imp == Head(imports)
             resolvedPath == resolveImportPath(disk, imp.module, path)
         IN writeImports(insertImport(d, path, imp.module, imp.name, resolvedPath),
                         disk, path, Tail(imports))

RECURSIVE writeConfigs(_, _, _)
writeConfigs(d, path, configs) ==
    IF configs = <<>> THEN d
    ELSE writeConfigs(insertConfig(d, path, Head(configs)), path, Tail(configs))

\* resolveImportPath throws inside the transaction for one of the imports
resolveThrows(disk, item) ==
    \E i \in 1..Len(item.imports) :
        resolveImportPath(disk, item.imports[i].module, item.meta.path) = Throws

\* file_content.file_path is the PRIMARY KEY (src/types.ts 138-142) and line
\* 165 is a plain INSERT: it fails when the path already has a content row.
UniqueFails(d, item) ==
    \E c \in d.content : c.file_path = item.meta.path

writeFileRow(d, item) ==
    insertFile(d, item.meta.path, item.meta.mtime,
               IF item.classification # "" THEN item.classification ELSE "Unknown")

writeDerivedRows(d, disk, item) ==
    LET d1 == writeExports(d, item.meta.path, item.exports)
        d2 == writeImports(d1, disk, item.meta.path, item.imports)
        d3 == writeConfigs(d2, item.meta.path, item.configs)
    IN insertContent(d3, item.meta.path, item.content)

\* The whole loop body, with no failure.
writeItem(d, disk, item) ==
    writeDerivedRows(writeFileRow(deleteFile(d, item.meta.path), item), disk, item)

\* Number of statements run by the loop body for one item.
ItemStatements(item) ==
    LET members == [i \in 1..Len(item.exports) |-> Len(item.exports[i].members)]
        Sum[i \in 0..Len(members)] == IF i = 0 THEN 0 ELSE Sum[i - 1] + members[i]
    IN Len(item.exports) + Sum[Len(members)] + Len(item.imports)
       + Len(item.configs) + 1

(***************************************************************************)
(* State.                                                                  *)
(*   disk         the files under /r (the environment)                     *)
(*   db           the committed store, what any reader sees                *)
(*   tx           the uncommitted state of the open transaction, or NoTx   *)
(*   pc           position of the running ensureCacheUpToDate              *)
(*   cachedFiles, onDiskFiles, toDelete, toProcess, results                *)
(*                the locals of ensureCacheUpToDate                        *)
(*   wpos, wphase position of writeTransaction: item index and statement   *)
(*   err          the exception ensureCacheUpToDate rejected with          *)
(*   stmts        statements run against the store in this pass (history)  *)
(*   dbAtStart    the store when the pass began (history)                  *)
(*   prevScan     scan of the previous pass if it completed (history)      *)
(*   seen         the file each parse task found on disk (history)         *)
(*   dbAtWrite    the store when writeTransaction began (history)          *)
(*   edits, passes  budget counters of the model                           *)
(*   q            the arguments and locals of the running query handler    *)
(*   qpc          position of the running query handler                    *)
(*   work, wi     the queue of the recursive query and the next row of it  *)
(*   qout         the response of the handler                              *)
(***************************************************************************)
VARIABLES disk, db, tx, pc, cachedFiles, onDiskFiles, toDelete, toProcess,
          results, wpos, wphase, err, stmts, dbAtStart, prevScan, edits, passes,
          seen, dbAtWrite, q, qpc, work, wi, qout

queryVars == <<q, qpc, work, wi, qout>>

syncVars == <<db, tx, pc, cachedFiles, onDiskFiles, toDelete, toProcess,
              results, wpos, wphase, err, stmts, dbAtStart, prevScan, passes, seen, dbAtWrite>>

\* The store files and connections of the process (src/db.ts, src/git.ts):
\*   head         the version-control state of the repository root
\*   stores       the store files under the root, by path
\*   dbCache      the connection cache: store path -> connection
\*   connections  every connection the process has opened, in order
\*   process      "running", or how the process ended
VARIABLES head, stores, dbCache, connections, process

storeVars == <<head, stores, dbCache, connections, process>>

NoTx == [EmptyDB EXCEPT !.seqE = -1]
NoScan == << <<"!none">> >>

(***************************************************************************)
(* What the environment may write under /r.                                *)
(***************************************************************************)
NameS == <<"S">>
NameT == <<"T">>
SpecA == <<"./", "a">>
SpecLib == <<"lib">>

AstA == << ExportDecl("ClassDeclaration", NameS, 1, 3,
                      << Member(<<"m">>, "ClassMethod", 2, 2) >>) >>
AstB1 == << ImportDecl(SpecA, << Named(NameS) >>),
            ExportNamed(<< Exported(NameS) >>, NoSource, 2) >>
CfgC == << [key |-> "port", value |-> "80", kind |-> "Port"] >>

Entry(mtime, fault, ast, cfg) ==
    [mtime |-> mtime, fault |-> fault, ast |-> ast, cfg |-> cfg]

Versions(p) ==
    CASE p = PathA -> {Entry(0, "ok", AstA, <<>>), Entry(0, "syntax", AstA, <<>>)}
      [] p = PathB -> {Entry(0, "ok", AstB1, <<>>), Entry(0, "ok", << ImportDecl(SpecLib, << Default(NameT) >>) >>, <<>>)}
      [] p = PathC -> {Entry(0, "ok", <<>>, CfgC), Entry(0, "unreadable", <<>>, CfgC)}
      [] OTHER -> {}

SyncPaths == {PathA, PathB, PathC}

\* A process outside the indexer creates or rewrites a file.
EnvWrite(p, v, m) ==
    /\ edits < MaxEdits
    /\ [v EXCEPT !.mtime = m] # disk[p]
    /\ disk' = [disk EXCEPT ![p] = [v EXCEPT !.mtime = m]]
    /\ edits' = edits + 1
    /\ UNCHANGED <<syncVars, queryVars, resolverVars, storeVars>>

\* A process outside the indexer removes a file.
EnvRemove(p) ==
    /\ edits < MaxEdits
    /\ disk[p] # Absent
    /\ disk' = [disk EXCEPT ![p] = Absent]
    /\ edits' = edits + 1
    /\ UNCHANGED <<syncVars, queryVars, resolverVars, storeVars>>

(***************************************************************************)
(* src/scanner.ts scanRepo: the {path, mtime} of every file under the      *)
(* root, here in path order.                                               *)
(***************************************************************************)

scanRepo(d) ==
    LET present(p) == d[p] # Absent
        found == SelectSeq(<<PathA, PathAX, PathB, PathC>>, present)
    IN [i \in 1..Len(found) |-> [path |-> found[i], mtime |-> d[found[i]].mtime]]

ScanPaths(scan) == {scan[i].path : i \in 1..Len(scan)}

Pending(meta) == ResultItem(meta, ParseOut(<<>>, <<>>, <<>>, ""), EmptyText, "pending")

(***************************************************************************)
(* ensureCacheUpToDate (src/index/cache.ts)                                *)
(***************************************************************************)
\* lines 12-19: open the store, read the cached {path, mtime}
SyncBegin ==
    /\ pc = "idle"
    /\ passes < MaxPasses
    /\ passes' = passes + 1
    /\ cachedFiles' = {[path |-> f.path, mtime |-> f.mtime] : f \in db.files}
    /\ dbAtStart' = db
    /\ stmts' = 0
    /\ err' = "none"
    /\ wpos' = 0
    /\ pc' = "scan"
    /\ UNCHANGED <<queryVars, resolverVars, storeVars, disk, db, tx, onDiskFiles, toDelete, toProcess, results,
                   wphase, prevScan, edits, seen, dbAtWrite>>

\* ToDelete testing the cached map instead of the scan: nothing is deleted.
ToDelete_WrongMap(cached, scan) ==
    {f.path : f \in {c \in cached : c.path \notin {x.path : x \in cached}}}

\* lines 26-31
ToDelete(cached, scan) == {f.path : f \in {c \in cached : c.path \notin ScanPaths(scan)}}

\* NeedsProcess without the comparison of modification times.
NeedsProcess_Always(cached, f) ==
    \/ ~ \E c \in cached : c.path = f.path
    \/ \E c \in cached : c.path = f.path

NeedsProcess(cached, f) ==
    \/ ~ \E c \in cached : c.path = f.path
    \/ \E c \in cached : c.path = f.path /\ c.mtime # f.mtime

ToProcess(cached, scan) ==
    LET changed(f) == NeedsProcess(cached, f)
    IN SelectSeq(scan, changed)

\* lines 22-35: the scan resumes, the work is determined, early return
SyncScan ==
    /\ pc = "scan"
    /\ LET scan == scanRepo(disk)
           del == ToDelete(cachedFiles, scan)
           proc == ToProcess(cachedFiles, scan)
       IN /\ onDiskFiles' = scan
          /\ toDelete' = del
          /\ toProcess' = proc
          /\ results' = [i \in 1..Len(proc) |-> Pending(proc[i])]
          /\ seen' = [i \in 1..Len(proc) |-> Absent]
          /\ pc' = IF del = {} /\ proc = <<>> THEN "done" ELSE "delete"
    /\ UNCHANGED <<queryVars, resolverVars, storeVars, disk, db, tx, cachedFiles, wpos, wphase, err, stmts,
                   dbAtStart, prevScan, edits, passes, dbAtWrite>>

RECURSIVE deleteAll(_, _)
deleteAll(d, paths) ==
    IF paths = {} THEN d
    ELSE LET p == CHOOSE x \in paths : TRUE
         IN deleteAll(deleteFile(d, p), paths \ {p})

\* lines 44-52: deleteTransaction commits
SyncDelete ==
    /\ pc = "delete"
    /\ db' = deleteAll(db, toDelete)
    /\ stmts' = stmts + Cardinality(toDelete)
    /\ pc' = IF toProcess = <<>> THEN "done" ELSE "parse"
    /\ UNCHANGED <<queryVars, resolverVars, storeVars, disk, tx, cachedFiles, onDiskFiles, toDelete, toProcess,
                   results, wpos, wphase, err, dbAtStart, prevScan, edits, passes, seen, dbAtWrite>>

\* lines 48-51: a statement of deleteTransaction fails; better-sqlite3 rolls
\* the transaction back and rethrows
SyncDeleteFail ==
    /\ pc = "delete"
    /\ toDelete # {}
    /\ \E n \in 1..Cardinality(toDelete) : stmts' = stmts + n
    /\ err' = "io"
    /\ pc' = "failed"
    /\ UNCHANGED <<queryVars, resolverVars, storeVars, disk, db, tx, cachedFiles, onDiskFiles, toDelete, toProcess,
                   results, wpos, wphase, dbAtStart, prevScan, edits, passes, seen, dbAtWrite>>

\* lines 61-88: one parse task runs; a task that threw would reject
\* Promise.all and with it ensureCacheUpToDate
Parse(i) ==
    /\ pc = "parse"
    /\ results[i].kind = "pending"
    /\ LET out == parseTask(disk, toProcess[i])
       IN IF out.kind = "throw"
          THEN /\ err' = "parse"
               /\ pc' = "failed"
               /\ UNCHANGED results
          ELSE /\ results' = [results EXCEPT ![i] = out]
               /\ UNCHANGED <<err, pc>>
    /\ seen' = [seen EXCEPT ![i] = disk[toProcess[i].path]]
    /\ UNCHANGED <<queryVars, resolverVars, storeVars, disk, db, tx, cachedFiles, onDiskFiles, toDelete,
                   toProcess, wpos, wphase, stmts, dbAtStart, prevScan,
                   edits, passes, dbAtWrite>>

\* lines 90, 100, 169: Promise.all resolves, writeTransaction begins
WriteBegin ==
    /\ pc = "parse"
    /\ \A i \in 1..Len(results) : results[i].kind # "pending"
    /\ tx' = db
    /\ dbAtWrite' = db
    /\ wpos' = 1
    /\ wphase' = "del"
    /\ pc' = "write"
    /\ UNCHANGED <<queryVars, resolverVars, storeVars, disk, db, cachedFiles, onDiskFiles, toDelete, toProcess,
                   results, err, stmts, dbAtStart, prevScan, edits, passes, seen>>

\* line 105
WriteDelete ==
    /\ pc = "write" /\ wpos <= Len(results) /\ wphase = "del"
    /\ tx' = deleteFile(tx, results[wpos].meta.path)
    /\ stmts' = stmts + 1
    /\ wphase' = "file"
    /\ UNCHANGED <<queryVars, resolverVars, storeVars, disk, db, pc, cachedFiles, onDiskFiles, toDelete, toProcess,
                   results, wpos, err, dbAtStart, prevScan, edits, passes, seen, dbAtWrite>>

\* line 108
WriteFile ==
    /\ pc = "write" /\ wpos <= Len(results) /\ wphase = "file"
    /\ tx' = writeFileRow(tx, results[wpos])
    /\ stmts' = stmts + 1
    /\ wphase' = "rows"
    /\ UNCHANGED <<queryVars, resolverVars, storeVars, disk, db, pc, cachedFiles, onDiskFiles, toDelete, toProcess,
                   results, wpos, err, dbAtStart, prevScan, edits, passes, seen, dbAtWrite>>

\* lines 110-165; resolveImportPath may throw, which aborts the transaction,
\* and so does an insert that the primary key of file_content rejects
WriteRows ==
    /\ pc = "write" /\ wpos <= Len(results) /\ wphase = "rows"
    /\ IF resolveThrows(disk, results[wpos]) \/ UniqueFails(tx, results[wpos])
       THEN /\ tx' = NoTx
            /\ err' = IF UniqueFails(tx, results[wpos]) THEN "unique" ELSE "resolve"
            /\ pc' = "failed"
            /\ UNCHANGED <<wpos, wphase, stmts>>
       ELSE /\ tx' = writeDerivedRows(tx, disk, results[wpos])
            /\ stmts' = stmts + ItemStatements(results[wpos])
            /\ wpos' = wpos + 1
            /\ wphase' = "del"
            /\ UNCHANGED <<err, pc>>
    /\ UNCHANGED <<queryVars, resolverVars, storeVars, disk, db, cachedFiles, onDiskFiles, toDelete, toProcess,
                   results, dbAtStart, prevScan, edits, passes, seen, dbAtWrite>>

\* WriteFail with statements that are not wrapped in a transaction: what
\* was written before the failure stays.
WriteFail_NoRollback ==
    /\ pc = "write" /\ wpos <= Len(results)
    /\ db' = tx
    /\ tx' = NoTx
    /\ err' = "io"
    /\ pc' = "failed"
    /\ UNCHANGED <<queryVars, resolverVars, storeVars, disk, cachedFiles, onDiskFiles, toDelete, toProcess,
                   results, wpos, wphase, stmts, dbAtStart, prevScan, edits, passes, seen, dbAtWrite>>

\* A statement of writeTransaction fails (disk full, corruption): the
\* transaction is rolled back and the exception propagates to the caller.
WriteFail ==
    /\ pc = "write" /\ wpos <= Len(results)
    /\ tx' = NoTx
    /\ err' = "io"
    /\ pc' = "failed"
    /\ UNCHANGED <<queryVars, resolverVars, storeVars, disk, db, cachedFiles, onDiskFiles, toDelete, toProcess,
                   results, wpos, wphase, stmts, dbAtStart, prevScan, edits, passes, seen, dbAtWrite>>

\* line 169 returns: COMMIT
WriteCommit ==
    /\ pc = "write" /\ wpos > Len(results)
    /\ db' = tx
    /\ tx' = NoTx
    /\ pc' = "done"
    /\ UNCHANGED <<queryVars, resolverVars, storeVars, disk, cachedFiles, onDiskFiles, toDelete, toProcess,
                   results, wpos, wphase, err, stmts, dbAtStart, prevScan,
                   edits, passes, seen, dbAtWrite>>

\* line 172 (or the rejection): control is back with the caller
SyncReturn ==
    /\ pc \in {"done", "failed"}
    /\ prevScan' = IF pc = "done" THEN onDiskFiles ELSE NoScan
    /\ pc' = "idle"
    /\ UNCHANGED <<queryVars, resolverVars, storeVars, disk, db, tx, cachedFiles, onDiskFiles, toDelete, toProcess,
                   results, wpos, wphase, err, stmts, dbAtStart, edits, passes, seen, dbAtWrite>>

vars == <<disk, db, tx, pc, cachedFiles, onDiskFiles, toDelete, toProcess,
          results, wpos, wphase, err, stmts, dbAtStart, prevScan, edits, passes,
          seen, dbAtWrite, q, qpc, work, wi, qout, resolverVars,
          head, stores, dbCache, connections, process>>

(***************************************************************************)
(* src/git.ts and the connection part of src/db.ts.  A branch name is a    *)
(* sequence of characters; a store file is Missing or holds its full-text  *)
(* tables, their triggers, the rows of the base tables and the entries of  *)
(* the full-text tables.  A connection records the version-control state   *)
(* under which it was opened.                                              *)
(***************************************************************************)
BASE_DB_FILENAME == <<".repo-prep">>

NoVcs == [kind |-> "none", name |-> NoPath]
Unborn == [kind |-> "unborn", name |-> NoPath]
Branch(name) == [kind |-> "branch", name |-> name]
Detached(commit) == [kind |-> "detached", name |-> commit]

\* lines 9-37.  NoPath stands for null: no .git, or a git command fails
\* (as rev-parse does in a repository without a commit).
getCurrentBranch(h) ==
    CASE h.kind = "none" -> NoPath
      [] h.kind = "unborn" -> NoPath
      [] h.kind = "detached" -> h.name
      [] h.kind = "branch" ->
            [k \in 1..Len(h.name) |->
                IF h.name[k] \in {"/", "\\", ":", "*", "\"", "<", ">", "|", "?"}
                THEN "-" ELSE h.name[k]]

\* db.ts lines 224-227 (and 84-86)
dbPath(h) ==
    IF getCurrentBranch(h) # NoPath
    THEN RootDir \o BASE_DB_FILENAME \o <<".">> \o getCurrentBranch(h) \o <<".db">>
    ELSE RootDir \o BASE_DB_FILENAME \o <<".db">>

FtsTables == {"exports_fts", "files_fts", "content_fts"}

\* content='...' of each full-text table
FtsOf(table) ==
    CASE table = "exports" -> "exports_fts"
      [] table = "files" -> "files_fts"
      [] table = "file_content" -> "content_fts"

Missing == [exists |-> FALSE, tables |-> {}, triggers |-> {}, rows |-> {}, fts |-> {}]

\* lines 83-217: CREATE ... IF NOT EXISTS for every table and trigger
initDB(store) ==
    [store EXCEPT !.exists = TRUE, !.tables = @ \cup FtsTables, !.triggers = @ \cup FtsTables]

\* lines 237-280: the migration run on an existing store file
migrate(store) ==
    IF "files_fts" \in store.tables THEN store
    ELSE [store EXCEPT
            !.tables = @ \cup {"files_fts"},
            !.triggers = @ \cup {"files_fts"},
            !.fts = @ \cup {[table |-> "files_fts", rowid |-> r.rowid] :
                               r \in {r \in store.rows : r.table = "files" /\ r.hasSummary}}]

closeAllDBs_ClearOnly(conns) == conns

\* lines 288-300: every cached connection that is open is closed
closeAllDBs(conns) ==
    [i \in DOMAIN conns |->
        IF \E p \in DOMAIN dbCache : dbCache[p] = i
        THEN [conns[i] EXCEPT !.open = FALSE]
        ELSE conns[i]]

\* No initResolver call was made yet.
ResolverIdle ==
    /\ resolverCache = << >>
    /\ firstContext = << >>

StoreIdle ==
    /\ head = NoVcs
    /\ stores = << >>
    /\ dbCache = << >>
    /\ connections = << >>
    /\ process = "running"

\* The repository when the indexer first sees it: empty, or holding the
\* three files.
InitialDisks ==
    { [p \in Paths |-> Absent],
      [p \in Paths |->
          CASE p = PathA -> Entry(1, "ok", AstA, <<>>)
            [] p = PathB -> Entry(1, "ok", AstB1, <<>>)
            [] p = PathC -> Entry(1, "ok", <<>>, CfgC)
            [] OTHER -> Absent] }


QueryIdle ==
    /\ q = [handler |-> "none"]
    /\ qpc = "idle"
    /\ work = <<>>
    /\ wi = 0
    /\ qout = [isError |-> FALSE, kind |-> "none"]

SyncIdle ==
    /\ tx = NoTx
    /\ pc = "idle"
    /\ cachedFiles = {}
    /\ onDiskFiles = <<>>
    /\ toDelete = {}
    /\ toProcess = <<>>
    /\ results = <<>>
    /\ wpos = 0
    /\ wphase = "del"
    /\ err = "none"
    /\ stmts = 0
    /\ dbAtStart = EmptyDB
    /\ prevScan = NoScan
    /\ edits = 0
    /\ passes = 0
    /\ seen = <<>>
    /\ dbAtWrite = EmptyDB

Init ==
    /\ disk \in InitialDisks
    /\ StoreIdle
    /\ requireExtensions = NodeExtensions
    /\ ResolverIdle
    /\ db = EmptyDB
    /\ SyncIdle
    /\ QueryIdle

Next ==
    \/ \E p \in SyncPaths : \E v \in Versions(p) : \E m \in 1..MaxMtime : EnvWrite(p, v, m)
    \/ \E p \in SyncPaths : EnvRemove(p)
    \/ SyncBegin
    \/ SyncScan
    \/ SyncDelete
    \/ SyncDeleteFail
    \/ \E i \in 1..Len(results) : Parse(i)
    \/ WriteBegin
    \/ WriteDelete
    \/ WriteFile
    \/ WriteRows
    \/ WriteFail
    \/ WriteCommit
    \/ SyncReturn

Spec == Init /\ [][Next]_vars

(***************************************************************************)
(* Properties of the sync pass.                                            *)
(***************************************************************************)
RowsOf(d, p) ==
    [exports |-> {e \in d.exports : e.file_path = p},
     imports |-> {i \in d.imports : i.file_path = p},
     configs |-> {c \in d.configs : c.file_path = p}]

NoDerivedRows(d, p) ==
    /\ RowsOf(d, p).exports = {}
    /\ RowsOf(d, p).imports = {}
    /\ RowsOf(d, p).configs = {}

\* C1: idempotence of sync.  A pass whose scan equals the scan of the
\* previous, completed pass runs no insert, update or delete statement and
\* returns with the store as it found it.
C1_Idempotent ==
    (pc = "done" /\ prevScan = onDiskFiles) => (stmts = 0 /\ db = dbAtStart)

C1_Witness ==
    /\ pc = "done" /\ prevScan = onDiskFiles
    /\ Len(onDiskFiles) >= 2
    /\ db.exports # {} /\ db.imports # {}

\* C2: completeness of sync.  When a pass has completed, the file rows are
\* exactly the scanned paths: one row per scanned path, no two rows with the
\* same path, no row for a path that is not in the scan.
C2_Complete ==
    pc = "done" =>
        /\ FilePaths(db) = ScanPaths(onDiskFiles)
        /\ Cardinality(db.files) = Len(onDiskFiles)
        /\ \A f, g \in db.files : f.path = g.path => f = g

C2_Witness ==
    /\ pc = "done"
    /\ toDelete # {} /\ toProcess # <<>>
    /\ \E i \in 1..Len(toProcess) :
          \E c \in cachedFiles : c.path = toProcess[i].path
    /\ Len(onDiskFiles) >= 2
    /\ Len(toProcess) < Len(onDiskFiles)

\* C3: cascade integrity.  In the committed store and in the open
\* transaction every symbol, import-edge, config and content row is owned by
\* a path that has a file row; and right after a file row is deleted (in the
\* deletion phase or by the delete of delete-then-reinsert) no symbol,
\* import-edge or config row of that path is left.
Owned(d) ==
    /\ \A e \in d.exports : e.file_path \in FilePaths(d)
    /\ \A i \in d.imports : i.file_path \in FilePaths(d)
    /\ \A c \in d.configs : c.file_path \in FilePaths(d)
    /\ \A c \in d.content : c.file_path \in FilePaths(d)

C3_Cascade ==
    /\ Owned(db)
    /\ tx # NoTx => Owned(tx)
    /\ (pc = "write" /\ wphase = "file") =>
           /\ results[wpos].meta.path \notin FilePaths(tx)
           /\ NoDerivedRows(tx, results[wpos].meta.path)
    /\ (pc \in {"parse", "done"} /\ toDelete # {}) =>
           \A p \in toDelete : p \notin FilePaths(db) /\ NoDerivedRows(db, p)

C3_Witness ==
    /\ pc = "write" /\ wphase = "file"
    /\ RowsOf(db, results[wpos].meta.path).exports # {}
    /\ toDelete # {}
    /\ \E p \in toDelete : ~ NoDerivedRows(dbAtStart, p)

\* C4: parse-failure isolation.  A parse task never makes the pass fail; when
\* the pass has completed, every changed file has a file row, a file whose
\* read or parse failed has no symbol, import-edge or config row, and every
\* other changed file has the rows extracted from the text its task read.
ParseFailed(e) == e.fault # "ok"

ExtractedRowCount(e) ==
    [exports |-> Len(extractExports(e.ast))
                 + Cardinality({<<i, j>> \in (1..Len(e.ast)) \X (1..2) :
                                   /\ e.ast[i].type = "ExportDeclaration"
                                   /\ j <= Len(e.ast[i].members)}),
     imports |-> Len(extractImports(e.ast)),
     configs |-> Len(e.cfg)]

C4_ParseIsolation ==
    /\ err # "parse"
    /\ (pc = "done" /\ toProcess # <<>>) =>
          \A i \in 1..Len(toProcess) :
             LET p == toProcess[i].path
                 rows == RowsOf(db, p)
             IN /\ p \in FilePaths(db)
                /\ IF ParseFailed(seen[i])
                   THEN NoDerivedRows(db, p)
                   ELSE /\ Cardinality(rows.exports) = ExtractedRowCount(seen[i]).exports
                        /\ Cardinality(rows.imports) = ExtractedRowCount(seen[i]).imports
                        /\ Cardinality(rows.configs) = ExtractedRowCount(seen[i]).configs
                        /\ {e.name : e \in {x \in rows.exports : x.parent_id = NULL}}
                              = {extractExports(seen[i].ast)[k].name :
                                     k \in 1..Len(extractExports(seen[i].ast))}

C4_Witness ==
    /\ pc = "done"
    /\ \E i, j \in 1..Len(toProcess) :
          /\ ParseFailed(seen[i])
          /\ ~ ParseFailed(seen[j])
          /\ ~ NoDerivedRows(db, toProcess[j].path)

\* C5: atomic write-back.  While writeTransaction runs, and after it has
\* failed, the committed store is the store the write-back started from, and
\* a failed write-back has surfaced an error to the caller: no reader sees a
\* part of the batch.
C5_Atomic ==
    /\ pc = "write" => db = dbAtWrite
    /\ (pc = "failed" /\ wpos >= 1) =>
           /\ db = dbAtWrite
           /\ tx = NoTx
           /\ err \in {"io", "resolve"}

C5_Witness ==
    /\ pc = "failed" /\ err = "io"
    /\ Len(results) >= 2 /\ wpos = 2 /\ wphase = "rows"

(***************************************************************************)
(* The store a completed sync leaves for a repository: ensureCacheUpToDate *)
(* run on an empty store, every file changed, one transaction.             *)
(***************************************************************************)
IndexOf(d) ==
    LET scan == scanRepo(d)
        F[i \in 0..Len(scan)] ==
            IF i = 0 THEN EmptyDB
            ELSE writeItem(F[i - 1], d, parseTask(d, scan[i]))
    IN F[Len(scan)]

\* Rows in rowid order, the order of a table scan.
RECURSIVE SortById(_)
SortById(rows) ==
    IF rows = {} THEN <<>>
    ELSE LET m == CHOOSE x \in rows : \A y \in rows : x.id <= y.id
         IN <<m>> \o SortById(rows \ {m})

\* path.relative(repoPath, p) for a file under the root
relative(p) == Tail(p)

(***************************************************************************)
(* IMPACT_ANALYSIS_QUERY (src/graph-queries.ts).  A recursive CTE is run   *)
(* by SQLite as a queue: the rows of the initial select are queued; one    *)
(* row at a time is taken from the queue, added to the table and fed to    *)
(* the recursive select, whose rows are queued.                            *)
(***************************************************************************)
ChainRow(consumer, i, source, depth, chain) ==
    [consumer_path |-> consumer, module_specifier |-> i.module_specifier,
     imported_symbols |-> i.imported_symbols, source_path |-> source,
     depth |-> depth, path_chain |-> chain]

\* lines 15-20
SymbolsMatch(imported_symbols, pattern) ==
    \/ Like(pattern, imported_symbols)
    \/ imported_symbols = <<"*">>
    \/ imported_symbols = <<>>

\* lines 5-20: the initial select
BaseRows(d, filePath, pattern) ==
    LET hits == SortById({i \in d.imports :
                    /\ \E f \in d.files : i.resolved_path = f.path /\ f.path = filePath
                    /\ SymbolsMatch(i.imported_symbols, pattern)})
    IN [k \in 1..Len(hits) |->
           ChainRow(hits[k].file_path, hits[k], filePath, 1,
                    hits[k].file_path \o <<"<-">> \o filePath)]

DepthAllows_Inclusive(depth, maxDepth) == depth <= maxDepth

\* line 34
DepthAllows(depth, maxDepth) == depth < maxDepth

\* line 35
NotInChain(chain, file_path) == ~ IsSubstr(file_path, chain)

\* lines 25-35: the recursive select for one row dc of the queue
StepRows(d, dc, maxDepth) ==
    LET hits == SortById({i \in d.imports :
                    /\ i.resolved_path = dc.consumer_path
                    /\ DepthAllows(dc.depth, maxDepth)
                    /\ NotInChain(dc.path_chain, i.file_path)})
    IN [k \in 1..Len(hits) |->
           ChainRow(hits[k].file_path, hits[k], dc.consumer_path, dc.depth + 1,
                    hits[k].file_path \o <<"<-">> \o dc.path_chain)]

Distinct_KeepAll(rows) == rows

RECURSIVE Distinct(_)
Distinct(rows) ==
    IF rows = <<>> THEN <<>>
    ELSE LET rest == Distinct(SubSeq(rows, 1, Len(rows) - 1))
             last == rows[Len(rows)]
         IN IF \E k \in 1..Len(rest) : rest[k] = last THEN rest ELSE Append(rest, last)

\* line 43: ORDER BY dc.depth, dc.consumer_path
\* Stable insertion of one row into a sorted sequence.
InsertSorted(sorted, r) ==
    LET less(a, b) == \/ a.depth < b.depth
                      \/ a.depth = b.depth /\ TextLess(a.consumer_path, b.consumer_path)
        n == Cardinality({k \in 1..Len(sorted) : ~ less(r, sorted[k])})
    IN SubSeq(sorted, 1, n) \o <<r>> \o SubSeq(sorted, n + 1, Len(sorted))

RECURSIVE OrderBy(_)
OrderBy(rows) ==
    IF rows = <<>> THEN <<>>
    ELSE InsertSorted(OrderBy(SubSeq(rows, 1, Len(rows) - 1)), rows[Len(rows)])

\* lines 37-43: SELECT DISTINCT of four columns, ordered
SelectFinal(table) ==
    OrderBy(Distinct([k \in 1..Len(table) |->
        [consumer_path |-> table[k].consumer_path, depth |-> table[k].depth,
         source_path |-> table[k].source_path,
         imported_symbols |-> table[k].imported_symbols]]))

(***************************************************************************)
(* handleAnalyzeChangeImpact (src/mcp/handlers/graph.ts).  The handler     *)
(* first awaits ensureCacheUpToDate; the store it then reads is in sync    *)
(* with the disk.                                                          *)
(***************************************************************************)
DEFAULT_DEPTH == 3

\* lines 89-95: one entry per matching exports row
ImpactSymbols(d, symbolName, filePath) ==
    SortById({e \in d.exports :
                 /\ e.file_path \in FilePaths(d)
                 /\ e.name = symbolName
                 /\ (filePath # NoPath => e.file_path = filePath)})

\* lines 81-102; line 83: depthArg 0 stands for an absent (or falsy) depth
ImpactStart(symbolName, filePath, depthArg) ==
    /\ qpc = "idle"
    /\ LET symbols == ImpactSymbols(db, symbolName, filePath)
       IN IF symbols = <<>>
          THEN /\ qout' = [isError |-> TRUE, kind |-> "not-found", results |-> <<>>]
               /\ qpc' = "done"
          ELSE /\ qout' = [isError |-> FALSE, kind |-> "impact", results |-> <<>>]
               /\ qpc' = "base"
    /\ q' = [handler |-> "impact", symbolName |-> symbolName, filePath |-> filePath,
             depthArg |-> depthArg, depth |-> IF depthArg # 0 THEN depthArg ELSE DEFAULT_DEPTH,
             symbols |-> [k \in 1..Len(ImpactSymbols(db, symbolName, filePath)) |->
                              ImpactSymbols(db, symbolName, filePath)[k].file_path],
             si |-> 1]
    /\ work' = <<>>
    /\ wi' = 0
    /\ UNCHANGED <<disk, edits, resolverVars, storeVars, syncVars>>

\* line 107, the initial select of the CTE for the current definition
ImpactBase ==
    /\ qpc = "base"
    /\ work' = BaseRows(db, q.symbols[q.si], LikePattern(q.symbolName))
    /\ wi' = 1
    /\ qpc' = "step"
    /\ UNCHANGED <<disk, edits, resolverVars, storeVars, syncVars, q, qout>>

\* line 107, one row leaves the queue of the CTE
ImpactStep ==
    /\ qpc = "step"
    /\ wi <= Len(work)
    /\ work' = work \o StepRows(db, work[wi], q.depth)
    /\ wi' = wi + 1
    /\ UNCHANGED <<disk, edits, resolverVars, storeVars, syncVars, q, qpc, qout>>

\* lines 107-117, the queue is empty: final select, next definition
ImpactCollect ==
    /\ qpc = "step"
    /\ wi > Len(work)
    /\ LET dependents == SelectFinal(work)
           entry == [symbol |-> q.symbolName,
                     definedIn |-> relative(q.symbols[q.si]),
                     impact |-> [k \in 1..Len(dependents) |->
                                   [file |-> relative(dependents[k].consumer_path),
                                    depth |-> dependents[k].depth,
                                    importer |-> relative(dependents[k].source_path),
                                    importedAs |-> dependents[k].imported_symbols]]]
       IN qout' = [qout EXCEPT !.results = Append(@, entry)]
    /\ IF q.si < Len(q.symbols)
       THEN /\ q' = [q EXCEPT !.si = @ + 1]
            /\ qpc' = "base"
       ELSE /\ q' = q
            /\ qpc' = "done"
    /\ UNCHANGED <<disk, edits, resolverVars, storeVars, syncVars, work, wi>>

(***************************************************************************)
(* Repositories for the graph queries: three code files, each with up to   *)
(* two of its candidate import declarations; a.ts defines S, a.tsx may.    *)
(***************************************************************************)
SpecAX == <<"./", "a", ".ts", "x">>
SpecB == <<"./", "b">>

DeclS == ExportDecl("FunctionDeclaration", NameS, 1, 3, <<>>)
DeclT == ExportDecl("FunctionDeclaration", NameT, 5, 6, <<>>)

ImportChoices(p) ==
    CASE p = PathA ->
            << ImportDecl(SpecB, << Named(NameT) >>),
               ImportDecl(SpecA, << Named(NameS) >>),
               ImportDecl(SpecAX, << Star(NameT) >>) >>
      [] p = PathAX ->
            << ImportDecl(SpecA, << Named(NameS) >>),
               ImportDecl(SpecA, << >>),
               ImportDecl(SpecB, << Named(NameT) >>),
               ExportAll(SpecB, 9) >>
      [] p = PathB ->
            << ImportDecl(SpecA, << Named(NameS) >>),
               ImportDecl(<<"./", "a", ".js">>, << Named(NameS) >>),
               ImportDecl(SpecA, << Named(<<"s">>), Named(NameT) >>),
               ImportDecl(SpecA, << Named(NameT) >>),
               ImportDecl(SpecAX, << Named(NameS) >>),
               ImportDecl(SpecAX, << Named(NameT) >>) >>
      [] OTHER -> <<>>

MaxImports == 2

\* The import declarations of a file: the chosen candidates, in order.
ImportsOf(p, chosen) ==
    LET picked(k) == k \in chosen
        idx == SelectSeq([k \in 1..Len(ImportChoices(p)) |-> k], picked)
    IN [k \in 1..Len(idx) |-> ImportChoices(p)[idx[k]]]

ChoiceSets(p) ==
    {c \in SUBSET (1..Len(ImportChoices(p))) : Cardinality(c) <= MaxImports}

GraphDisks ==
    { [p \in Paths |->
          CASE p = PathA -> Entry(1, "ok", ImportsOf(PathA, ca) \o <<DeclS>>, <<>>)
            [] p = PathAX -> Entry(1, "ok", ImportsOf(PathAX, cx) \o
                                  (IF sx THEN <<DeclS>> ELSE <<DeclT>>), <<>>)
            [] p = PathB -> Entry(1, "ok", ImportsOf(PathB, cb) \o <<DeclT>>, <<>>)
            [] OTHER -> Absent]
      : ca \in ChoiceSets(PathA), cx \in ChoiceSets(PathAX),
        cb \in ChoiceSets(PathB), sx \in BOOLEAN }

InitImpact ==
    /\ disk \in GraphDisks
    /\ StoreIdle
    /\ requireExtensions = NodeExtensions
    /\ ResolverIdle
    /\ db = IndexOf(disk)
    /\ SyncIdle
    /\ QueryIdle


NextImpact ==
    \/ \E n \in {NameS} : \E f \in {NoPath, PathA, PathAX} :
          \E dep \in 0..MaxDepthArg : ImpactStart(n, f, dep)
    \/ ImpactBase
    \/ ImpactStep
    \/ ImpactCollect

SpecImpact == InitImpact /\ [][NextImpact]_vars

(***************************************************************************)
(* Properties of change-impact analysis.                                   *)
(***************************************************************************)
ImpactDone == qpc = "done" /\ qout.kind = "impact"

ResultIndexes == IF ImpactDone THEN 1..Len(qout.results) ELSE {}

EntriesOf(k) == qout.results[k].impact

ReportedAt(k, n) ==
    {EntriesOf(k)[j].file : j \in {j \in 1..Len(EntriesOf(k)) : EntriesOf(k)[j].depth = n}}

\* C6: the impact traversal of an import graph with cycles terminates (no
\* queued row is deeper than the depth bound or than the number of files),
\* and the file that defines the symbol is never returned as a consumer of
\* its own symbol.
C6_CycleSafe ==
    /\ \A k \in 1..Len(work) :
          work[k].depth <= q.depth /\ work[k].depth <= Cardinality(FilePaths(db))
    /\ \A k \in ResultIndexes : \A j \in 1..Len(EntriesOf(k)) :
          EntriesOf(k)[j].file # qout.results[k].definedIn

\* The consumers of the claim's reading, level by level: level 1 imports
\* from F a list of names that contains S, is blank or is the wildcard;
\* level n+1 imports from a file of level n.
ClaimedLevels(F, symbolName, d) ==
    LET L[n \in 1..d] ==
            IF n = 1
            THEN {i.file_path : i \in {i \in db.imports :
                      /\ i.resolved_path = F
                      /\ \/ IsSubstr(symbolName, i.imported_symbols)
                         \/ i.imported_symbols = <<>>
                         \/ i.imported_symbols = <<"*">>}}
            ELSE {i.file_path : i \in {i \in db.imports : i.resolved_path \in L[n - 1]}}
    IN L

RECURSIVE ChainText(_)
ChainText(c) ==
    IF Len(c) = 1 THEN c[1] ELSE c[1] \o <<"<-">> \o ChainText(Tail(c))

\* Import chains ending at F, by length.  A chain of length 1 is an edge
\* resolving to F whose name list matches %S% under LIKE, is blank or is the
\* wildcard; a chain is extended by an edge that resolves to its first file
\* from a file whose path does not occur in the text of the chain.
ImportChains(F, symbolName, d) ==
    LET Ch[n \in 1..d] ==
            IF n = 1
            THEN {<<i.file_path, F>> : i \in {i \in db.imports :
                      /\ i.resolved_path = F
                      /\ F \in FilePaths(db)
                      /\ \/ Like(<<"%">> \o symbolName \o <<"%">>, i.imported_symbols)
                         \/ i.imported_symbols = <<>>
                         \/ i.imported_symbols = <<"*">>}}
            ELSE {<<x[1].file_path>> \o x[2] : x \in {x \in db.imports \X Ch[n - 1] :
                      /\ x[1].resolved_path = Head(x[2])
                      /\ ~ IsSubstr(x[1].file_path, ChainText(x[2]))}}
    IN Ch

Ordered(entries) ==
    \A i \in 1..Len(entries) : \A j \in 1..Len(entries) :
       i < j => \/ entries[i].depth < entries[j].depth
                \/ /\ entries[i].depth = entries[j].depth
                   /\ \/ entries[i].file = entries[j].file
                      \/ TextLess(entries[i].file, entries[j].file)

\* C8 as stated: each consumer file occurs at most once in the result of a
\* definition, and the entries ascend by depth and then by consumer path.
C8_Original ==
    \A k \in ResultIndexes :
       /\ \A i \in 1..Len(EntriesOf(k)) : \A j \in 1..Len(EntriesOf(k)) :
             i # j => EntriesOf(k)[i].file # EntriesOf(k)[j].file
       /\ Ordered(EntriesOf(k))

\* C8 amended: each combination of consumer file, depth, imported-from file
\* and imported-name list occurs at most once in the result of a definition
\* (a consumer file may occur in several entries), and the entries ascend
\* by depth and then by consumer path.
C8_Amended ==
    \A k \in ResultIndexes :
       /\ \A i \in 1..Len(EntriesOf(k)) : \A j \in 1..Len(EntriesOf(k)) :
             i # j => EntriesOf(k)[i] # EntriesOf(k)[j]
       /\ Ordered(EntriesOf(k))

\* A result whose consumer has two import declarations of the same names
\* from the defining file, and which also holds entries of other files.
C8_Witness ==
    /\ ImpactDone
    /\ \E k \in ResultIndexes :
          /\ Len(EntriesOf(k)) >= 2
          /\ \E i \in db.imports : \E j \in db.imports :
                /\ i.id # j.id
                /\ i.file_path = j.file_path
                /\ i.resolved_path = q.symbols[k]
                /\ j.resolved_path = q.symbols[k]
                /\ i.imported_symbols = j.imported_symbols
                /\ i.imported_symbols = q.symbolName

(***************************************************************************)
(* Symbol lookup (src/mcp/handlers/symbols.ts).  Each handler first awaits *)
(* ensureCacheUpToDate, so the store it reads is in sync with the disk.    *)
(* Rows that tie under an ORDER BY come in rowid order, the order of the   *)
(* scan.                                                                   *)
(***************************************************************************)
\* A stable sort of rows by key.
RECURSIVE SortByKey(_, _)
SortByKey(rows, key) ==
    IF rows = <<>> THEN <<>>
    ELSE LET sorted == SortByKey(SubSeq(rows, 1, Len(rows) - 1), key)
             x == rows[Len(rows)]
             n == Cardinality({k \in 1..Len(sorted) : key[sorted[k]] <= key[x]})
         IN SubSeq(sorted, 1, n) \o <<x>> \o SubSeq(sorted, n + 1, Len(sorted))

\* FROM exports e JOIN files f ON e.file_path = f.path WHERE e.name = ?
\* [AND f.path = ?]
LookupRows(d, symbolName, filePath) ==
    {e \in d.exports :
        /\ e.file_path \in FilePaths(d)
        /\ e.name = symbolName
        /\ (filePath # NoPath => e.file_path = filePath)}

MaxSpan == 20

\* ORDER BY CASE WHEN e.kind = 'ExportSpecifier' THEN 1 ELSE 0 END,
\*          (e.end_line - e.start_line) DESC
DefinitionKey(e) ==
    (IF e.kind = "ExportSpecifier" THEN 1 ELSE 0) * (MaxSpan + 1)
       + (MaxSpan - (e.end_line - e.start_line))

\* ORDER BY CASE WHEN e.parent_id IS NULL THEN 0 ELSE 1 END,
\*          CASE WHEN e.kind = 'ExportSpecifier' THEN 2 ELSE 0 END
ReadKey(e) ==
    (IF e.parent_id = NULL THEN 0 ELSE 1) * 3
       + (IF e.kind = "ExportSpecifier" THEN 2 ELSE 0)

DefinitionResults(d, symbolName, filePath) ==
    LET rows == LookupRows(d, symbolName, filePath)
    IN SortByKey(SortById(rows), [e \in rows |-> DefinitionKey(e)])

ReadResults(d, symbolName, filePath) ==
    LET rows == LookupRows(d, symbolName, filePath)
    IN SortByKey(SortById(rows), [e \in rows |-> ReadKey(e)])

\* results.filter(r => r.kind !== 'ExportSpecifier')
Implementations(matched) ==
    LET isImpl(r) == r.kind # "ExportSpecifier"
    IN SelectSeq(matched, isImpl)

\* The answer for one row: source is lines.slice(start_line - 1, end_line)
\* of the file as read from the disk, parent the name of the LEFT JOINed row.
DefinitionData(dk, d, r) ==
    LET inSpan(item) == item.line >= r.start_line /\ item.endLine <= r.end_line
        ps == {p \in d.exports : p.id = r.parent_id}
    IN [name |-> r.name, kind |-> r.kind, file |-> relative(r.file_path),
        startLine |-> r.start_line, endLine |-> r.end_line,
        parent |-> IF r.parent_id = NULL \/ ps = {} THEN <<>>
                   ELSE (CHOOSE p \in ps : TRUE).name,
        source |-> SelectSeq(dk[r.file_path].ast, inSpan)]

NotFound(handler) == [isError |-> FALSE, kind |-> "not-found", handler |-> handler]

Candidates(handler, implementations) ==
    [isError |-> FALSE, kind |-> "candidates", handler |-> handler,
     matches |-> [k \in 1..Len(implementations) |->
                     [file |-> relative(implementations[k].file_path),
                      name |-> implementations[k].name,
                      kind |-> implementations[k].kind,
                      line |-> implementations[k].start_line]]]

\* handleGetSymbolDefinition, lines 7-82
handleGetSymbolDefinition(dk, d, symbolName, filePath) ==
    LET matched == DefinitionResults(d, symbolName, filePath)
        implementations == Implementations(matched)
    IN IF matched = <<>> THEN NotFound("definition")
       ELSE IF Len(implementations) > 1 /\ filePath = NoPath
       THEN Candidates("definition", implementations)
       ELSE [isError |-> FALSE, kind |-> "definition", handler |-> "definition",
             definition |-> DefinitionData(dk, d, matched[1])]

\* depLines[i].includes(symbolName) for some line of the file
MentionsName(dk, file_path, symbolName) ==
    \E k \in 1..Len(dk[file_path].ast) :
       LET item == dk[file_path].ast[k]
       IN \/ IsSubstr(symbolName, item.name)
          \/ \E j \in 1..Len(item.specs) : IsSubstr(symbolName, item.specs[j].local)
          \/ \E j \in 1..Len(item.members) : IsSubstr(symbolName, item.members[j].name)

DEFAULT_USAGE_EXAMPLES == 3

\* handleGetSymbolContext, lines 161-303
handleGetSymbolContext(dk, d, symbolName, filePath, includeUsages) ==
    LET matched == DefinitionResults(d, symbolName, filePath)
        implementations == Implementations(matched)
        result == matched[1]
        deps == SortById({i \in d.imports : i.file_path = result.file_path})
        allDependents == SortById({i \in d.imports :
                            /\ i.resolved_path = result.file_path
                            /\ SymbolsMatch(i.imported_symbols, LikePattern(symbolName))})
        dependents == SubSeq(allDependents, 1,
                             IF Len(allDependents) < DEFAULT_USAGE_EXAMPLES
                             THEN Len(allDependents) ELSE DEFAULT_USAGE_EXAMPLES)
        mentions(i) == MentionsName(dk, i.file_path, symbolName)
        used == SelectSeq(dependents, mentions)
    IN IF matched = <<>> THEN NotFound("context")
       ELSE IF Len(implementations) > 1 /\ filePath = NoPath
       THEN Candidates("context", implementations)
       ELSE [isError |-> FALSE, kind |-> "definition", handler |-> "context",
             definition |-> DefinitionData(dk, d, result),
             dependencies |-> [k \in 1..Len(deps) |->
                                  [module |-> deps[k].module_specifier,
                                   symbols |-> deps[k].imported_symbols,
                                   resolvedPath |-> deps[k].resolved_path,
                                   isExternal |-> deps[k].resolved_path = NoPath]],
             usageExamples |-> IF includeUsages
                               THEN [k \in 1..Len(used) |->
                                        [file |-> relative(used[k].file_path),
                                         importedSymbols |-> used[k].imported_symbols]]
                               ELSE <<>>]

Sym(symbolName, filePath) == [symbolName |-> symbolName, filePath |-> filePath]

\* handleGetSymbolsBatch, lines 85-159: each symbol is looked up with LIMIT 1
handleGetSymbolsBatch(dk, d, symbols) ==
    LET found(sym) == DefinitionResults(d, sym.symbolName, sym.filePath) # <<>>
        missing(sym) == ~ found(sym)
        hits == SelectSeq(symbols, found)
        misses == SelectSeq(symbols, missing)
    IN IF symbols = <<>>
       THEN [isError |-> TRUE, kind |-> "error", handler |-> "batch"]
       ELSE [isError |-> FALSE, kind |-> "batch", handler |-> "batch",
             symbols |-> [k \in 1..Len(hits) |->
                             DefinitionData(dk, d,
                                DefinitionResults(d, hits[k].symbolName, hits[k].filePath)[1])],
             notFound |-> misses]

ReExportKinds == {"ExportSpecifier", "ExportAllDeclaration"}

\* lines 397-402: the first import row of the file whose name list matches
ImportSource(d, file_path, symbolName) ==
    SortById({i \in d.imports :
                 /\ i.file_path = file_path
                 /\ \/ Like(LikePattern(symbolName), i.imported_symbols)
                    \/ i.imported_symbols = <<"*">>})

\* lines 498-526: the files that re-export the file of the definition,
\* level by level.  proxyResults is the select of lines 507-513 for one
\* file p, one entry per matching import row.
ProxyKinds == {"ExportAllDeclaration", "ExportMapping"}

proxyResults(d, p) ==
    LET hits == SortById({i \in d.imports :
                    /\ i.resolved_path = p
                    /\ \E e \in d.exports :
                          e.file_path = i.file_path /\ e.kind \in ProxyKinds})
    IN [k \in 1..Len(hits) |-> hits[k].file_path]

\* lines 515-520: if (!proxies.has(r.file_path)) { add; nextLevel.push }
RECURSIVE AddProxies(_, _)
AddProxies(acc, rows) ==
    IF rows = <<>> THEN acc
    ELSE AddProxies(IF Head(rows) \in acc.proxies THEN acc
                    ELSE [proxies |-> acc.proxies \cup {Head(rows)},
                          nextLevel |-> Append(acc.nextLevel, Head(rows))],
                    Tail(rows))

\* lines 505-521: for (const p of currentLevel)
RECURSIVE ScanLevel(_, _, _)
ScanLevel(d, acc, currentLevel) ==
    IF currentLevel = <<>> THEN acc
    ELSE ScanLevel(d, AddProxies(acc, proxyResults(d, Head(currentLevel))),
                   Tail(currentLevel))

\* lines 503-523: while (currentLevel.length > 0); enqueued is every file
\* pushed to a level, in order.
RECURSIVE ProxyWalk(_, _, _, _)
ProxyWalk(d, proxies, currentLevel, enqueued) ==
    IF currentLevel = <<>> THEN [proxies |-> proxies, enqueued |-> enqueued]
    ELSE LET acc == ScanLevel(d, [proxies |-> proxies, nextLevel |-> <<>>], currentLevel)
         IN ProxyWalk(d, acc.proxies, acc.nextLevel, enqueued \o acc.nextLevel)

VERIFIED_LIMIT == 10
FTS_LIMIT == 8
MENTION_LIMIT == 5

Limit(rows, n) == SubSeq(rows, 1, IF Len(rows) < n THEN Len(rows) ELSE n)

\* lines 529-536
verifiedDependents(d, proxies, symbolName) ==
    Limit(SortById({i \in d.imports :
                       /\ i.file_path \in FilePaths(d)
                       /\ i.resolved_path \in proxies
                       /\ SymbolsMatch(i.imported_symbols, LikePattern(symbolName))}),
          VERIFIED_LIMIT)

\* content_fts MATCH ?: the unicode61 tokenizer splits the text into words
\* and folds case; a query of one word matches a text that holds the word.
LowerText(t) == [k \in 1..Len(t) |-> Lower(t[k])]

Words(ast) ==
    UNION {{ast[k].name} \cup {ast[k].specs[j].local : j \in 1..Len(ast[k].specs)}
              \cup {ast[k].members[j].name : j \in 1..Len(ast[k].members)}
           : k \in 1..Len(ast)}

RECURSIVE SortByPath(_)
SortByPath(paths) ==
    IF paths = {} THEN <<>>
    ELSE LET m == CHOOSE x \in paths : \A y \in paths : x = y \/ TextLess(x, y)
         IN <<m>> \o SortByPath(paths \ {m})

\* lines 572-577; the rows are taken in path order.
FtsMatch(d, symbolName) ==
    LET hits == {c \in d.content :
                    \E w \in Words(c.content.ast) : LowerText(w) = LowerText(symbolName)}
    IN Limit(SortByPath({c.file_path : c \in hits}), FTS_LIMIT)

MENTION_REASON == "Text mention (no explicit import)"

\* lines 473-604: the answer of context 'full' for the row result
FullData(dk, d, result, symbolName) ==
    LET walk == ProxyWalk(d, {result.file_path}, <<result.file_path>>, <<>>)
        deps == verifiedDependents(d, walk.proxies, symbolName)
        other(dep) == dep.file_path # result.file_path
        processed == SelectSeq(deps, other)
        processedPaths == {processed[k].file_path : k \in 1..Len(processed)}
        mentions(dep) == MentionsName(dk, dep.file_path, symbolName)
        used == SelectSeq(processed, mentions)
        loose(file_path) == file_path \notin processedPaths /\ file_path # result.file_path
        fts == Limit(SelectSeq(FtsMatch(d, symbolName), loose), MENTION_LIMIT)
    IN [isError |-> FALSE, kind |-> "definition", handler |-> "read",
        definition |-> DefinitionData(dk, d, result),
        proxies |-> walk.proxies,
        enqueued |-> walk.enqueued,
        totalVerified |-> Cardinality({i \in d.imports :
                             /\ i.resolved_path \in walk.proxies
                             /\ SymbolsMatch(i.imported_symbols, LikePattern(symbolName))}),
        verifiedUsages |-> [k \in 1..Len(used) |->
                               [file |-> relative(used[k].file_path),
                                importedSymbols |-> used[k].imported_symbols]],
        looseMentions |-> [k \in 1..Len(fts) |->
                              [file |-> relative(fts[k]), reason |-> MENTION_REASON]]]

NoRow == [id |-> 0]

GetSymbolDefinition(symbolName, filePath) ==
    /\ qpc = "idle"
    /\ q' = [handler |-> "definition", symbols |-> <<Sym(symbolName, filePath)>>]
    /\ qout' = handleGetSymbolDefinition(disk, db, symbolName, filePath)
    /\ qpc' = "done"
    /\ UNCHANGED <<disk, edits, resolverVars, storeVars, syncVars, work, wi>>

GetSymbolContext(symbolName, filePath, includeUsages) ==
    /\ qpc = "idle"
    /\ q' = [handler |-> "context", symbols |-> <<Sym(symbolName, filePath)>>]
    /\ qout' = handleGetSymbolContext(disk, db, symbolName, filePath, includeUsages)
    /\ qpc' = "done"
    /\ UNCHANGED <<disk, edits, resolverVars, storeVars, syncVars, work, wi>>

GetSymbolsBatch(symbols) ==
    /\ qpc = "idle"
    /\ q' = [handler |-> "batch", symbols |-> symbols]
    /\ qout' = handleGetSymbolsBatch(disk, db, symbols)
    /\ qpc' = "done"
    /\ UNCHANGED <<disk, edits, resolverVars, storeVars, syncVars, work, wi>>

\* The model follows at most MaxRedirects nested invocations of
\* handleReadSymbol.
MaxRedirects == 4

\* The caller's invocation of handleReadSymbol.  q.symbols keeps the
\* caller's arguments, q.filePath is the argument of the current invocation,
\* q.origin the top-ranked row of the caller's invocation when it is a
\* re-export row that was followed, q.redirects the number of nested
\* invocations so far.
ReadSymbol(symbolName, filePath, context) ==
    /\ qpc = "idle"
    /\ q' = [handler |-> "read", symbols |-> <<Sym(symbolName, filePath)>>,
             filePath |-> filePath, context |-> context, origin |-> NoRow,
             redirects |-> 0]
    /\ qpc' = "read"
    /\ UNCHANGED <<disk, edits, resolverVars, storeVars, syncVars, work, wi, qout>>

\* One invocation of handleReadSymbol, lines 309-470: it answers, or calls
\* itself with the resolved path of the import as filePath.
ReadSymbolCall ==
    /\ qpc = "read"
    /\ LET symbolName == q.symbols[1].symbolName
           matched == ReadResults(db, symbolName, q.filePath)
           result == matched[1]
           importSource == ImportSource(db, result.file_path, symbolName)
       IN IF matched = <<>>
          THEN /\ qout' = NotFound("read")
               /\ qpc' = "done"
               /\ q' = q
          ELSE IF /\ result.kind \in ReExportKinds
                  /\ importSource # <<>>
                  /\ importSource[1].resolved_path # NoPath
          THEN /\ q.redirects < MaxRedirects
               /\ q' = [q EXCEPT !.filePath = importSource[1].resolved_path,
                                 !.origin = IF q.origin = NoRow THEN result ELSE @,
                                 !.redirects = @ + 1]
               /\ UNCHANGED <<qout, qpc>>
          ELSE /\ qout' = IF q.context = "definition"
                          THEN [isError |-> FALSE, kind |-> "definition", handler |-> "read",
                                definition |-> DefinitionData(disk, db, result)]
                          ELSE FullData(disk, db, result, symbolName)
               /\ qpc' = "done"
               /\ q' = q
    /\ UNCHANGED <<disk, edits, resolverVars, storeVars, syncVars, work, wi>>

(***************************************************************************)
(* Repositories for the lookups: b.ts is a barrel over a.ts, a.ts defines, *)
(* re-exports or forwards, a.tsx defines or consumes.                      *)
(***************************************************************************)
ReExportS(line) == ExportNamed(<< Exported(NameS) >>, NoSource, line)


LookupChoices(p) ==
    CASE p = PathA ->
            { <<DeclS>>,
              <<DeclT>>,
              << Item("TsInterfaceDeclaration", NoSource, <<>>, "", NameS, 1, 2, <<>>),
                 ExportDecl("ClassDeclaration", NameS, 4, 9, <<>>) >>,
              << ExportAll(SpecAX, 1) >>,
              << ImportDecl(SpecB, << Named(NameS) >>), ReExportS(2) >>,
              << ExportNamed(<< Exported(NameS) >>, SpecAX, 1) >> }
      [] p = PathAX ->
            { <<DeclS>>, <<DeclT>>, <<ExportDecl("ClassDeclaration", NameT, 1, 9, << Member(NameS, "ClassMethod", 2, 3) >>)>>,
              << ImportDecl(SpecB, << Named(NameS) >>) >>,
              [k \in 1..VERIFIED_LIMIT |-> ImportDecl(SpecA, <<>>)] }
      [] p = PathB ->
            { << ImportDecl(SpecA, << Named(NameS) >>), ReExportS(2) >>,
              << ExportNamed(<< Exported(NameS) >>, SpecA, 1) >>,
              << ExportAll(SpecA, 1) >>,
              << ImportDecl(SpecLib, << Named(NameS) >>), ReExportS(2) >>,
              << ImportDecl(SpecA, << Named(NameS) >>), ExportAll(SpecAX, 2) >>,
              <<DeclT>> }
      [] OTHER -> {}

LookupDisks ==
    { [p \in Paths |->
          CASE p = PathA -> Entry(1, "ok", a, <<>>)
            [] p = PathAX -> Entry(1, "ok", x, <<>>)
            [] p = PathB -> Entry(1, "ok", b, <<>>)
            [] OTHER -> Absent]
      : a \in LookupChoices(PathA), x \in LookupChoices(PathAX), b \in LookupChoices(PathB) }

InitLookup ==
    /\ disk \in LookupDisks
    /\ StoreIdle
    /\ requireExtensions = NodeExtensions
    /\ ResolverIdle
    /\ db = IndexOf(disk)
    /\ SyncIdle
    /\ QueryIdle

LookupNames == {NameS, NameT}
LookupHints == {NoPath, PathA, PathB}
MaxBatch == 2

NextLookup ==
    \/ \E n \in LookupNames : \E f \in LookupHints : GetSymbolDefinition(n, f)
    \/ \E n \in LookupNames : \E f \in LookupHints : \E u \in BOOLEAN :
          GetSymbolContext(n, f, u)
    \/ \E n \in 0..MaxBatch :
          \E symbols \in [1..n -> {Sym(s, f) : s \in LookupNames, f \in {NoPath, PathA}}] :
             GetSymbolsBatch(symbols)
    \/ \E n \in LookupNames : \E f \in LookupHints :
          \E context \in {"definition", "full"} : ReadSymbol(n, f, context)
    \/ ReadSymbolCall

SpecLookup == InitLookup /\ [][NextLookup]_vars

(***************************************************************************)
(* Properties of symbol lookup.                                            *)
(***************************************************************************)
\* C9: a read whose top-ranked match is a re-export row that is followed
\* ends with a non-re-export definition, or else with the original
\* re-export record; it never ends with a not-found result.
C9_Debarrel ==
    (qpc = "done" /\ q.handler = "read" /\ q.origin # NoRow) =>
       /\ qout.kind = "definition"
       /\ \/ qout.definition.kind \notin ReExportKinds
          \/ qout.definition = DefinitionData(disk, db, q.origin)

\* C10: for each lookup operation, a name with no file hint that two or
\* more non-re-export rows of different files carry is answered by the list
\* of all those candidates, never by the source of one of them.
C10_Ambiguity ==
    (qpc = "done" /\ q.handler \in {"definition", "context", "read", "batch"}) =>
       \A k \in 1..Len(q.symbols) :
          (/\ q.symbols[k].filePath = NoPath
           /\ \E e1 \in db.exports : \E e2 \in db.exports :
                 /\ e1.name = q.symbols[k].symbolName
                 /\ e2.name = q.symbols[k].symbolName
                 /\ e1.kind \notin ReExportKinds /\ e2.kind \notin ReExportKinds
                 /\ e1.file_path # e2.file_path) =>
             /\ qout.kind = "candidates"
             /\ {qout.matches[j].file : j \in 1..Len(qout.matches)} =
                   {relative(e.file_path) : e \in {e \in db.exports :
                        e.name = q.symbols[k].symbolName /\ e.kind \notin ReExportKinds}}


(***************************************************************************)
(* Import resolution as a function of the file system: resolveImportPath   *)
(* applied to specifiers of every kind over repositories that hold a       *)
(* project configuration (or none), a workspace root (or none) and a few   *)
(* of the files the strategies probe.                                      *)
(***************************************************************************)
MaxFiles == 3

ImporterPath == <<"/r/", "src", "/", "a", ".ts">>
GonePath == <<"/r/", "src", "/", "gone", ".ts">>
CoreDir == <<"/r/", "packages", "/", "core">>

SpecUtil == <<"./", "util">>
SpecUtilJs == <<"./", "util", ".js">>
SpecDir == <<"./", "lib">>
SpecCore == <<"@app/", "core">>
SpecLeftPad == <<"left-pad">>
Specifiers == {SpecUtil, SpecUtilJs, SpecDir, SpecCore, SpecLib, SpecLeftPad}

\* "paths": { "@app/*": ["packages/*/src"] }
Alias == [pattern |-> <<"@app/", "*">>, target |-> <<"packages", "/", "*", "/", "src">>]

PlainFile == Entry(1, "ok", <<>>, <<>>)

TsConfigs ==
    {Absent, Entry(1, "syntax", <<>>, <<>>)}
    \cup {Entry(1, "ok", <<>>, [baseUrl |-> b, paths |-> ps]) :
             b \in {NoPath, <<".">>}, ps \in {<<>>, << Alias >>}}

PackageJson(name, workspaces, fileDeps) ==
    Entry(1, "ok", <<>>,
          [name |-> name, main |-> NoPath, workspaces |-> workspaces, fileDeps |-> fileDeps])

RootPackages ==
    {Absent,
     PackageJson(<<"root">>, << <<"packages", "/*">> >>, <<>>),
     PackageJson(<<"root">>, <<>>,
                 << [name |-> SpecCore, path |-> <<"packages", "/", "core">>] >>)}

ProbedFiles ==
    {join(dirname(ImporterPath), t) :
        t \in {<<"util", ".ts">>, <<"util", ".js">>, <<"util">>,
               <<"lib", "/", "index", ".ts">>, <<"lib", "/", "index", ".d", ".ts">>}}
    \cup {join(RootDir, <<"lib", ".ts">>)}
    \cup {join(CoreDir, t) :
        t \in {PACKAGE_JSON, <<"src", ".json">>, <<"src", "/", "index", ".ts">>,
               <<"src", "/", "index", ".js">>, <<"dist", "/", "index", ".js">>}}

ResolvePaths ==
    {ImporterPath, GonePath, join(RootDir, TSCONFIG), join(RootDir, PACKAGE_JSON)}
    \cup ProbedFiles

ResolveDisks ==
    {[p \in ResolvePaths |->
        CASE p = ImporterPath -> PlainFile
          [] p = join(RootDir, TSCONFIG) -> ts
          [] p = join(RootDir, PACKAGE_JSON) -> root
          [] p = join(CoreDir, PACKAGE_JSON) /\ p \in present -> PackageJson(SpecCore, <<>>, <<>>)
          [] p \in present -> PlainFile
          [] OTHER -> Absent] :
     ts \in TsConfigs, root \in RootPackages,
     present \in {F \in SUBSET ProbedFiles : Cardinality(F) <= MaxFiles}}

\* firstContext after an initResolver call that returned value: the first
\* value returned for a configuration directory stays on record.
Remembered(first, disk_, searchPath, value) ==
    LET noted(dir) ==
            IF dir \in {Throws, NoPath} \/ dir \in DOMAIN first THEN first
            ELSE [d \in DOMAIN first \cup {dir} |-> IF d = dir THEN value ELSE first[d]]
    IN noted(findNearestTsConfig(disk_, searchPath))

\* One call of resolveImportPath; q records the arguments, qout the outcome.
\* A relative specifier returns before initResolver is called (lines 115-119).
Resolve(importSpecifier, importingFilePath) ==
    LET startsWithDot == importSpecifier # <<>> /\ Head(importSpecifier) = "./"
        returns(r) ==
            /\ qout' = [isError |-> resolveImportPathWith(disk, importSpecifier,
                                        importingFilePath, r.value) = Throws,
                        kind |-> "resolved",
                        result |-> resolveImportPathWith(disk, importSpecifier,
                                        importingFilePath, r.value)]
            /\ resolverCache' = r.cache
            /\ firstContext' = IF startsWithDot THEN firstContext
                               ELSE Remembered(firstContext, disk, importingFilePath, r.value)
    IN /\ q.handler = "none"
       /\ q' = [handler |-> "resolve", importSpecifier |-> importSpecifier,
                importingFilePath |-> importingFilePath]
       /\ returns(IF startsWithDot THEN [value |-> [resolver |-> "null"], cache |-> resolverCache]
                  ELSE initResolverCached(resolverCache, disk, importingFilePath))
       /\ UNCHANGED <<disk, edits, requireExtensions, storeVars, syncVars, qpc, work, wi>>

InitResolve ==
    /\ disk \in ResolveDisks
    /\ StoreIdle
    /\ requireExtensions \in {NodeExtensions, TsxExtensions}
    /\ ResolverIdle
    /\ db = EmptyDB
    /\ SyncIdle
    /\ QueryIdle

NextResolve ==
    \E s \in Specifiers : \E f \in {ImporterPath, GonePath} : Resolve(s, f)

SpecResolve == InitResolve /\ [][NextResolve]_vars

Resolved == qout.kind = "resolved"


\* What each strategy of resolveImportPath yields on its own for the call
\* recorded in q: NoPath when it yields no existing file.
StrategyResults ==
    LET resolver == initResolver(disk, q.importingFilePath)
        aliasResolved == matchPath(disk, resolver, q.importSpecifier)
        pkgs == {w \in resolver.workspacePackages : w.name = q.importSpecifier}
        pkg == CHOOSE w \in pkgs : TRUE
    IN << IF aliasResolved # NoPath THEN normalizeResolvedPath(disk, aliasResolved)
          ELSE NoPath,
          IF Head(q.importSpecifier) \notin ScopeTokens
          THEN normalizeResolvedPath(disk, join(resolver.baseUrl, q.importSpecifier))
          ELSE NoPath,
          IF pkgs # {} /\ existsSync(disk, join(pkg.path, <<"src", "/", "index", ".ts">>))
          THEN join(pkg.path, <<"src", "/", "index", ".ts">>)
          ELSE NoPath,
          IF pkgs # {} THEN normalizeResolvedPath(disk, join(pkg.path, pkg.main))
          ELSE NoPath >>

\* The call in q is a non-relative specifier resolved under a loaded
\* project configuration.
UnderConfig ==
    /\ Resolved
    /\ Head(q.importSpecifier) # "./"
    /\ q.importingFilePath = ImporterPath
    /\ initResolver(disk, q.importingFilePath).resolver = "config"

\* C11: resolution returns the result of the first strategy, in the order
\* alias pattern, base-directory join, workspace source entry, workspace
\* declared entry, that yields an existing file; a strategy that yields none
\* does not stop the later ones, and unresolved is returned only when every
\* strategy has failed.
C11_Precedence ==
    UnderConfig =>
        LET firsts == {k \in 1..4 : StrategyResults[k] # NoPath}
        IN qout.result = IF firsts = {} THEN NoPath
                         ELSE StrategyResults[CHOOSE k \in firsts : \A j \in firsts : k <= j]


\* The candidate path of a relative call: the specifier resolved against
\* the directory of the importing file.
RelativeCall == Resolved /\ Head(q.importSpecifier) = "./"
Candidate == join(dirname(q.importingFilePath), Tail(q.importSpecifier))
UtilTs == join(dirname(ImporterPath), <<"util", ".ts">>)

\* The first path of a list that satisfies a test, or NoPath
FirstOf(paths, Test(_)) ==
    LET hits == {k \in 1..Len(paths) : Test(paths[k])}
    IN IF hits = {} THEN NoPath ELSE paths[CHOOSE k \in hits : \A j \in hits : k <= j]

IsFileNow(p) == isFile(disk, p)
ExistsNow(p) == existsSync(disk, p)

\* C12 as stated: probing returns the first existing file among the
\* candidate itself, the candidate plus each supported source extension and,
\* for a directory, its index under each supported extension, and unresolved
\* if none exists; ./util from /r/src/a.ts resolves to /r/src/util.ts when
\* that file exists.
C12_Original ==
    RelativeCall =>
        LET exts == << <<".ts">>, <<".ts", "x">>, <<".d", ".ts">>, <<".js">>, <<".js", "x">> >>
            files == <<Candidate>> \o [k \in 1..5 |-> Candidate \o exts[k]]
            indexes == IF isDirectory(disk, Candidate)
                       THEN [k \in 1..5 |-> join(Candidate, <<"index">>) \o exts[k]]
                       ELSE <<>>
        IN /\ qout.result = FirstOf(files \o indexes, IsFileNow)
           /\ (q.importSpecifier = SpecUtil /\ isFile(disk, UtilTs)) => qout.result = UtilTs

\* C12 amended: probing returns the first existing file among, in this
\* order: for a candidate ending in .js (.jsx) the candidate with .ts, .tsx
\* (.tsx, .ts) in place of that extension and the candidate itself; then the
\* candidate plus .ts, .tsx, .d.ts, .js, .jsx; then the candidate itself.  If
\* none is a file and the candidate is a directory, it returns the first
\* existing entry among index.ts, index.tsx, index.js, index.jsx of that
\* directory; otherwise unresolved.  ./util from /r/src/a.ts resolves to
\* /r/src/util.ts when that file exists.
C12_Amended ==
    RelativeCall =>
        LET ext == extname(Candidate)
            base == SubSeq(Candidate, 1, Len(Candidate) - Len(ext))
            swaps == IF ext = <<".js">>
                     THEN << base \o <<".ts">>, base \o <<".ts", "x">>, Candidate >>
                     ELSE IF ext = <<".js", "x">>
                     THEN << base \o <<".ts", "x">>, base \o <<".ts">>, Candidate >>
                     ELSE <<>>
            files == swaps \o << Candidate \o <<".ts">>, Candidate \o <<".ts", "x">>,
                                 Candidate \o <<".d", ".ts">>, Candidate \o <<".js">>,
                                 Candidate \o <<".js", "x">>, Candidate >>
            indexes == IF isDirectory(disk, Candidate)
                       THEN << join(Candidate, <<"index", ".ts">>),
                               join(Candidate, <<"index", ".ts", "x">>),
                               join(Candidate, <<"index", ".js">>),
                               join(Candidate, <<"index", ".js", "x">>) >>
                       ELSE <<>>
        IN /\ qout.result = IF FirstOf(files, IsFileNow) # NoPath
                            THEN FirstOf(files, IsFileNow)
                            ELSE FirstOf(indexes, ExistsNow)
           /\ (q.importSpecifier = SpecUtil /\ isFile(disk, UtilTs)) => qout.result = UtilTs

\* ./util was resolved while both /r/src/util and /r/src/util.ts exist
C12_Witness ==
    /\ RelativeCall
    /\ q.importSpecifier = SpecUtil
    /\ isFile(disk, Candidate)
    /\ isFile(disk, UtilTs)
    /\ qout.result = UtilTs


\* C13: a non-relative specifier that matches an alias pattern of the
\* nearest project configuration resolves to the file found by substituting
\* the wildcard into the pattern target under the base directory and probing
\* extensions and index: @app/core with @app/* -> packages/*/src resolves to
\* what probing finds for packages/core/src under the configuration's
\* directory, whether the base directory is declared as that directory or
\* left out.
C13_Alias ==
    LET substituted == join(RootDir, <<"packages", "/", "core", "/", "src">>)
    IN (/\ UnderConfig
        /\ q.importSpecifier = SpecCore
        /\ disk[join(RootDir, TSCONFIG)].cfg.paths = << Alias >>
        /\ normalizeResolvedPath(disk, substituted) # NoPath)
       => qout.result = normalizeResolvedPath(disk, substituted)


C15_ResolveNonFatal ==
    ~ (pc = "failed" /\ err = "resolve")

\* C16: at the end of a pass every file whose parse failed in that pass is
\* stored with classification "error".
C16_ErrorMark ==
    pc = "done" =>
        \A i \in 1..Len(toProcess) :
            ParseFailed(seen[i]) =>
                \E f \in db.files :
                    f.path = toProcess[i].path /\ f.classification = "error"


\* C17: a query for a symbol name that has no stored row answers with a
\* not-found result that is not flagged as an error.
C17_OutcomeKinds ==
    qout.kind = "not-found" => ~ qout.isError


(***************************************************************************)
(* The store files and the connection cache of one process: getDB under    *)
(* changing version-control states of the root, writes through the         *)
(* returned connections, and the two ways the process shuts down.          *)
(***************************************************************************)
MaxRows == 1
MaxCheckouts == 1

Heads ==
    {NoVcs, Unborn, Branch(<<"f", "/", "x">>), Branch(<<"f", "-", "x">>),
     Detached(<<"a1b2c3d">>)}

StorePaths == {dbPath(h) : h \in Heads}

Row(table, rowid, hasSummary) ==
    [table |-> table, rowid |-> rowid, hasSummary |-> hasSummary]

\* A store file written by an earlier build: some of the full-text tables,
\* each kept in step with its base table by its triggers.
OldStore(tables, rows) ==
    [exists |-> TRUE, tables |-> tables, triggers |-> tables, rows |-> rows,
     fts |-> {[table |-> FtsOf(r.table), rowid |-> r.rowid] :
                 r \in {r \in rows : FtsOf(r.table) \in tables}}]

OldRows ==
    { {},
      {Row("files", 1, TRUE), Row("exports", 1, TRUE)},
      {Row("files", 1, FALSE), Row("file_content", 1, TRUE)} }

\* The full-text tables of the earlier builds, in the order they were added
OldTables ==
    { {}, {"exports_fts"}, {"exports_fts", "files_fts"}, FtsTables }

\* lines 222-286 of db.ts
GetDB ==
    /\ process = "running"
    /\ LET path == dbPath(head)
           id == Len(connections) + 1
       IN IF path \in DOMAIN dbCache /\ connections[dbCache[path]].open
          THEN /\ qout' = [isError |-> FALSE, kind |-> "db", conn |-> dbCache[path],
                             head |-> head]
               /\ UNCHANGED <<stores, dbCache, connections>>
          ELSE /\ stores' = [stores EXCEPT ![path] =
                                IF ~ stores[path].exists
                                THEN initDB(stores[path])
                                ELSE migrate(stores[path])]
               /\ connections' = Append(connections,
                                        [path |-> path, open |-> TRUE, head |-> head])
               /\ dbCache' = [p \in (DOMAIN dbCache) \cup {path} |->
                                 IF p = path THEN id ELSE dbCache[p]]
               /\ qout' = [isError |-> FALSE, kind |-> "db", conn |-> id, head |-> head]
    /\ q' = [handler |-> "getDB"]
    /\ UNCHANGED <<disk, edits, resolverVars, syncVars, qpc, work, wi, head, process>>

\* An INSERT into a base table by the caller that getDB has just returned
\* the connection to;
\* the AFTER INSERT trigger, where the store has it, adds the full-text entry.
InsertRow(table) ==
    LET path == dbPath(head)
        rowid == Cardinality({r \in stores[path].rows : r.table = table}) + 1
    IN /\ process = "running"
       /\ qout.kind = "db" /\ qout.head = head
       /\ path \in DOMAIN dbCache
       /\ connections[dbCache[path]].open
       /\ Cardinality(stores[path].rows) < MaxRows
       /\ stores' = [stores EXCEPT
              ![path].rows = @ \cup {Row(table, rowid, TRUE)},
              ![path].fts = @ \cup (IF FtsOf(table) \in stores[path].triggers
                                    THEN {[table |-> FtsOf(table), rowid |-> rowid]}
                                    ELSE {})]
       /\ UNCHANGED <<disk, edits, resolverVars, syncVars, queryVars,
                      head, dbCache, connections, process>>

\* The user (or another tool) changes the checkout of the root.
Checkout(h) ==
    /\ process = "running"
    /\ h # head
    /\ edits < MaxCheckouts
    /\ edits' = edits + 1
    /\ head' = h
    /\ UNCHANGED <<disk, resolverVars, syncVars, queryVars,
                   stores, dbCache, connections, process>>

\* line 303: the 'exit' event of a normal exit
Exit ==
    /\ process = "running"
    /\ connections' = closeAllDBs(connections)
    /\ dbCache' = << >>
    /\ process' = "exited"
    /\ UNCHANGED <<disk, edits, resolverVars, syncVars, queryVars, head, stores>>

\* lines 304-307: SIGINT closes the connections and calls process.exit(0),
\* whose 'exit' event finds the cache empty
Sigint ==
    /\ process = "running"
    /\ connections' = closeAllDBs(connections)
    /\ dbCache' = << >>
    /\ process' = "interrupted"
    /\ UNCHANGED <<disk, edits, resolverVars, syncVars, queryVars, head, stores>>

InitStore ==
    /\ disk \in {[p \in Paths |-> Absent]}
    /\ requireExtensions = NodeExtensions
    /\ ResolverIdle
    /\ db = EmptyDB
    /\ SyncIdle
    /\ QueryIdle
    /\ head \in Heads
    /\ stores \in {[p \in StorePaths |-> Missing]}
                  \cup {[p \in StorePaths |-> IF p = old THEN OldStore(tables, rows) ELSE Missing] :
                           old \in StorePaths, tables \in OldTables, rows \in OldRows}
    /\ dbCache = << >>
    /\ connections = << >>
    /\ process = "running"

NextStore ==
    \/ GetDB
    \/ \E t \in {"exports", "files", "file_content"} : InsertRow(t)
    \/ \E h \in Heads : Checkout(h)
    \/ Exit
    \/ Sigint

SpecStore == InitStore /\ [][NextStore]_vars


\* C18: the store file getDB uses is determined by the root and its
\* version-control state (no qualifier without version control, the short
\* commit identifier on a detached checkout, the sanitized branch name on a
\* branch), and two different branches of the root never get the same store
\* file: a connection returned under one branch was never opened under
\* another.
C18_Isolation ==
    qout.kind = "db" =>
        LET c == connections[qout.conn]
        IN /\ qout.head.kind = "none" => c.path = RootDir \o <<".repo-prep", ".db">>
           /\ qout.head.kind = "detached"
                 => c.path = RootDir \o <<".repo-prep", ".">> \o qout.head.name \o <<".db">>
           /\ qout.head.kind = "branch"
                 => /\ Len(c.path) = Len(qout.head.name) + 4
                    /\ \A k \in 1..Len(c.path) : c.path[k] \notin {"/", "\\", ":", "*", "?"}
           /\ (qout.head.kind = "branch" /\ c.head.kind = "branch")
                 => c.head.name = qout.head.name

\* C19: every store that getDB has returned a connection to holds the three
\* full-text tables with their triggers, and each of them has one entry per
\* row of its base table.
C19_SelfMigration ==
    process = "running" =>
        \A p \in DOMAIN dbCache :
            /\ stores[p].tables = FtsTables
            /\ stores[p].triggers = FtsTables
            /\ \A r \in stores[p].rows :
                  [table |-> FtsOf(r.table), rowid |-> r.rowid] \in stores[p].fts

C21_Terminates ==
    (q.handler = "read") => q.redirects <= Cardinality(FilePaths(db))

(***************************************************************************)
(* Properties of the chains of change-impact analysis.                     *)
(***************************************************************************)
\* The files of a chain text f1<-f2<-...<-fn, each as a whole path.
RECURSIVE FilesOnChain(_)
FilesOnChain(chain) ==
    LET arrows == {k \in 1..Len(chain) : chain[k] = "<-"}
        cut == CHOOSE k \in arrows : \A j \in arrows : k <= j
    IN IF arrows = {} THEN <<chain>>
       ELSE <<SubSeq(chain, 1, cut - 1)>> \o FilesOnChain(SubSeq(chain, cut + 1, Len(chain)))

\* C22: a row of the traversal that may still be extended is extended by
\* an importer of its consumer exactly when that importer, as a whole path,
\* is not yet a file of the row's chain; and no file occurs twice within
\* the chain of a row.
C22_ChainScoped ==
    \A k \in 1..Len(work) :
       LET files == FilesOnChain(work[k].path_chain)
       IN /\ \A i \in 1..Len(files) : \A j \in 1..Len(files) : i # j => files[i] # files[j]
          /\ (k < wi /\ work[k].depth < q.depth) =>
                \A i \in db.imports :
                   i.resolved_path = work[k].consumer_path =>
                      ((\E j \in 1..Len(work) :
                           work[j].path_chain = i.file_path \o <<"<-">> \o work[k].path_chain)
                        <=> (\A j \in 1..Len(files) : files[j] # i.file_path))

(***************************************************************************)
(* Properties of usage discovery (read_symbol with context 'full').        *)
(***************************************************************************)
FullDone == qpc = "done" /\ q.handler = "read" /\ q.context = "full" /\ qout.kind = "definition"

\* The file of the definition that was answered.
DefiningFile == RootDir \o qout.definition.file

\* File p re-exports from file f: by `export * from`, by `export { .. }
\* from`, or by exporting a name it imports from f.
ReExports(p, f) ==
    LET text == disk[p].ast
        from(item) == normalizeResolvedPath(disk, join(dirname(p), Tail(item.source)))
    IN \E k \in 1..Len(text) :
          \/ /\ text[k].type \in {"ExportAllDeclaration", "ExportNamedDeclaration"}
             /\ text[k].source # NoSource
             /\ from(text[k]) = f
          \/ /\ text[k].type = "ImportDeclaration"
             /\ from(text[k]) = f
             /\ \E j \in 1..Len(text) :
                   /\ text[j].type = "ExportNamedDeclaration"
                   /\ text[j].source = NoSource
                   /\ \E a \in 1..Len(text[j].specs) : \E b \in 1..Len(text[k].specs) :
                         text[j].specs[a].local = text[k].specs[b].local

\* The defining file plus every file that re-exports it directly or
\* transitively.
ReExporters(f) ==
    LET R[n \in 0..Cardinality(Paths)] ==
            IF n = 0 THEN {f}
            ELSE R[n - 1] \cup {p \in FilePaths(db) : \E r \in R[n - 1] : ReExports(p, r)}
    IN R[Cardinality(Paths)]

\* C23: in full mode the proxy set is exactly the defining file plus every
\* file that re-exports it directly or transitively, by wildcard or by named
\* re-export; a file that only imports the defining file is not a proxy;
\* the traversal enqueues each file at most once.
C23_ProxySet ==
    FullDone =>
       /\ qout.proxies = ReExporters(DefiningFile)
       /\ \A i \in 1..Len(qout.enqueued) : \A j \in 1..Len(qout.enqueued) :
             i # j => qout.enqueued[i] # qout.enqueued[j]

\* File f holds an import edge that resolves to a file of the set targets
\* with a matching, blank or wildcard name list.
VerifiedUsage(f, targets) ==
    \E i \in db.imports :
       /\ i.file_path = f
       /\ i.resolved_path \in targets
       /\ SymbolsMatch(i.imported_symbols, LikePattern(q.symbols[1].symbolName))

\* C24: no file with a verified usage of the symbol (an import edge that
\* resolves to the defining file or to a proxy) is reported as a loose
\* mention, the defining file is never a loose mention, and every loose
\* mention carries the text-mention label.
C24_LooseDisjoint ==
    FullDone =>
       \A k \in 1..Len(qout.looseMentions) :
          /\ RootDir \o qout.looseMentions[k].file # DefiningFile
          /\ qout.looseMentions[k].reason = MENTION_REASON
          /\ ~ VerifiedUsage(RootDir \o qout.looseMentions[k].file,
                             ReExporters(DefiningFile))

(***************************************************************************)
(* Properties of the ranking of lookups.                                   *)
(***************************************************************************)
\* The rows selected by the finished lookup, one per requested symbol, as
\* kind and line span: the row answered, or for read_symbol the top-ranked
\* row of the caller's invocation when it was followed.
Selected ==
    LET of(data) == [kind |-> data.kind, span |-> data.endLine - data.startLine]
    IN IF q.handler = "batch"
       THEN [k \in 1..Len(q.symbols) |-> of(qout.symbols[k])]
       ELSE IF q.handler = "read" /\ q.origin # NoRow
       THEN << [kind |-> q.origin.kind, span |-> q.origin.end_line - q.origin.start_line] >>
       ELSE << of(qout.definition) >>

\* A lookup that ended with one row per requested symbol.
RowSelected ==
    /\ qpc = "done"
    /\ q.handler \in {"definition", "context", "read", "batch"}
    /\ IF q.handler = "batch" THEN qout.kind = "batch" /\ qout.notFound = <<>>
       ELSE qout.kind = "definition"

\* C25: of the rows that match a lookup (same name, same optional file
\* scope) the selected row is not a re-export row if a non-re-export row
\* matches, and no matching row of its kind class spans more lines.
C25_Ranking ==
    RowSelected =>
       \A k \in 1..Len(q.symbols) :
          LET rows == LookupRows(db, q.symbols[k].symbolName, q.symbols[k].filePath)
              reExport(kind) == kind \in ReExportKinds
          IN /\ (\E r \in rows : ~ reExport(r.kind)) => ~ reExport(Selected[k].kind)
             /\ \A r \in rows :
                   reExport(r.kind) = reExport(Selected[k].kind) =>
                      r.end_line - r.start_line <= Selected[k].span

(***************************************************************************)
(* Properties of the rows of a write batch.                                *)
(***************************************************************************)
MemberKinds == {"ClassMethod", "ClassProperty"}

\* C26: in the committed store and in the open transaction, the parent
\* reference of a member row names an existing top-level row of the same
\* file that was inserted before it in the same batch (no row other than
\* members of that parent was inserted in between), and a top-level symbol
\* has no parent reference.
C26_ParentRefs ==
    \A d \in {db, tx} : \A e \in d.exports :
       IF e.kind \in MemberKinds
       THEN \E p \in d.exports :
               /\ p.id = e.parent_id
               /\ p.file_path = e.file_path
               /\ p.parent_id = NULL
               /\ p.id < e.id
               /\ \A x \in d.exports : (p.id < x.id /\ x.id < e.id) => x.parent_id = p.id
       ELSE e.parent_id = NULL

\* A member row written again by a later pass, next to rows of another
\* file.
C26_Witness ==
    /\ pc = "done"
    /\ passes = 2
    /\ \E e \in db.exports : \E o \in db.exports :
          /\ e.kind \in MemberKinds
          /\ e.parent_id > 1
          /\ o.file_path # e.file_path


(***************************************************************************)
(* The resolver cache over the life of one process: initResolver and       *)
(* resolveImportPath are called again and again while the configuration    *)
(* and the root manifest are rewritten on disk, and clearResolverCache     *)
(* (exported, lines 165-171) may be called.                                *)
(***************************************************************************)

\* Specifiers that reach initResolver.
CacheSpecifiers == {SpecCore, SpecLib}

CacheDisks ==
    {[p \in ResolvePaths |->
        CASE p = ImporterPath -> PlainFile
          [] p = join(RootDir, TSCONFIG) -> ts
          [] p = join(RootDir, PACKAGE_JSON) -> root
          [] p = join(RootDir, <<"lib", ".ts">>) -> PlainFile
          [] OTHER -> Absent] :
     ts \in TsConfigs, root \in RootPackages}

\* initResolver(searchPath), index.ts lines 28-100
InitResolverCall(searchPath) ==
    LET returns(r) ==
            /\ qout' = [isError |-> r.value.resolver = "throws", kind |-> "context",
                        context |-> r.value]
            /\ resolverCache' = r.cache
            /\ firstContext' = Remembered(firstContext, disk, searchPath, r.value)
    IN /\ q' = [handler |-> "initResolver", searchPath |-> searchPath]
       /\ returns(initResolverCached(resolverCache, disk, searchPath))
       /\ UNCHANGED <<disk, edits, requireExtensions, storeVars, syncVars, qpc, work, wi>>

\* resolveImportPath(importSpecifier, importingFilePath) for a specifier that
\* is not relative, lines 121-158
ResolveCall(importSpecifier, importingFilePath) ==
    LET returns(r) ==
            /\ qout' = [isError |-> r.value.resolver = "throws", kind |-> "context",
                        context |-> r.value]
            /\ resolverCache' = r.cache
            /\ firstContext' = Remembered(firstContext, disk, importingFilePath, r.value)
    IN /\ q' = [handler |-> "resolve", searchPath |-> importingFilePath]
       /\ returns(initResolverCached(resolverCache, disk, importingFilePath))
       /\ UNCHANGED <<disk, edits, requireExtensions, storeVars, syncVars, qpc, work, wi>>

\* clearResolverCache(repoPath), lines 165-171.  What is cleared is no longer
\* on record as a first context.
ClearResolverCache(repoPath) ==
    /\ resolverCache' = clearResolverCache(resolverCache, repoPath)
    /\ firstContext' = [d \in DOMAIN firstContext \cap DOMAIN resolverCache' |-> firstContext[d]]
    /\ q' = [handler |-> "clearResolverCache", repoPath |-> repoPath]
    /\ UNCHANGED <<disk, edits, requireExtensions, storeVars, syncVars, qpc, work, wi, qout>>

\* The environment rewrites, breaks, removes or creates tsconfig.json or the
\* root package.json.
RewriteConfig(p, entry) ==
    /\ edits < MaxEdits
    /\ disk[p] # entry
    /\ disk' = [disk EXCEPT ![p] = entry]
    /\ edits' = edits + 1
    /\ UNCHANGED <<resolverVars, storeVars, syncVars, q, qpc, work, wi, qout>>

InitCache ==
    /\ disk \in CacheDisks
    /\ StoreIdle
    /\ requireExtensions = NodeExtensions
    /\ ResolverIdle
    /\ db = EmptyDB
    /\ SyncIdle
    /\ QueryIdle

NextCache ==
    \/ \E f \in {ImporterPath, RootDir} : InitResolverCall(f)
    \/ \E s \in CacheSpecifiers : ResolveCall(s, ImporterPath)
    \/ \E r \in {NoPath, RootDir, dirname(ImporterPath)} : ClearResolverCache(r)
    \/ \E ts \in TsConfigs : RewriteConfig(join(RootDir, TSCONFIG), ts)
    \/ \E root \in RootPackages : RewriteConfig(join(RootDir, PACKAGE_JSON), root)

SpecCache == InitCache /\ [][NextCache]_vars

\* C27: a call of initResolver or resolveImportPath for a file under a
\* configuration directory whose context was computed before, and not
\* cleared since, uses that first context, whatever happened on disk.
C27_CachedContext ==
    q.handler \in {"initResolver", "resolve"} =>
        \A d \in DOMAIN firstContext :
            SubSeq(q.searchPath, 1, Len(d)) = d => qout.context = firstContext[d]


(***************************************************************************)
(* Two passes of ensureCacheUpToDate in one process.  Every handler starts *)
(* with `await ensureCacheUpToDate(repoPath)`, so a request that arrives   *)
(* while a pass is suspended (at `await scanRepo`, line 22, or at          *)
(* `await Promise.all(parseTasks)`, line 90) starts a second pass on the   *)
(* same connection.  Between two awaits a pass runs without interruption:  *)
(* the second pass takes no step while the first is between its scan and  *)
(* its deleteTransaction or inside writeTransaction.  The second pass      *)
(* keeps its locals in q and its position in qpc.                          *)
(***************************************************************************)

\* writeTransaction(results), lines 100-169, as one step: the store after
\* it and the error that left it, if any (then everything is rolled back).
writeTransaction(d, disk_, items) ==
    LET F[i \in 0..Len(items)] ==
            IF i = 0 THEN [db |-> d, err |-> "none"]
            ELSE IF F[i - 1].err # "none" THEN F[i - 1]
            ELSE IF resolveThrows(disk_, items[i])
            THEN [db |-> d, err |-> "resolve"]
            ELSE IF UniqueFails(writeFileRow(deleteFile(F[i - 1].db, items[i].meta.path),
                                             items[i]), items[i])
            THEN [db |-> d, err |-> "unique"]
            ELSE [db |-> writeItem(F[i - 1].db, disk_, items[i]), err |-> "none"]
    IN F[Len(items)]

FirstSuspended == pc \notin {"delete", "write"}

\* lines 12-22 of the second pass
SecondBegin ==
    /\ FirstSuspended
    /\ q.handler = "none"
    /\ q' = [handler |-> "ensureCacheUpToDate",
             cachedFiles |-> {[path |-> f.path, mtime |-> f.mtime] : f \in db.files},
             toDelete |-> {}, toProcess |-> <<>>, results |-> <<>>,
             overlaps |-> pc \in {"scan", "parse"}]
    /\ qpc' = "scan"
    /\ UNCHANGED <<disk, edits, resolverVars, storeVars, syncVars, work, wi, qout>>

\* lines 22-90 of the second pass: the scan resumes, deleteTransaction
\* commits, the parse tasks are started
SecondScan ==
    /\ FirstSuspended
    /\ qpc = "scan"
    /\ LET scan == scanRepo(disk)
           del == ToDelete(q.cachedFiles, scan)
           proc == ToProcess(q.cachedFiles, scan)
       IN /\ q' = [q EXCEPT !.toDelete = del, !.toProcess = proc,
                            !.overlaps = @ \/ pc \in {"scan", "parse"}]
          /\ db' = deleteAll(db, del)
          /\ qpc' = IF proc = <<>> THEN "done" ELSE "parse"
          /\ qout' = IF proc = <<>> THEN [isError |-> FALSE, kind |-> "sync", err |-> "none"]
                     ELSE qout
    /\ UNCHANGED <<disk, edits, resolverVars, storeVars, tx, pc, cachedFiles, onDiskFiles,
                   toDelete, toProcess, results, wpos, wphase, err, stmts, dbAtStart,
                   prevScan, passes, seen, dbAtWrite, work, wi>>

\* lines 61-88 of the second pass: the parse tasks run
SecondParse ==
    /\ qpc = "parse"
    /\ q' = [q EXCEPT !.results = [i \in 1..Len(q.toProcess) |-> parseTask(disk, q.toProcess[i])]]
    /\ qpc' = "write"
    /\ UNCHANGED <<disk, edits, resolverVars, storeVars, syncVars, work, wi, qout>>

\* lines 90-172 of the second pass: Promise.all resolves, writeTransaction
\* runs, the pass returns or rejects
SecondWrite ==
    /\ FirstSuspended
    /\ qpc = "write"
    /\ LET returns(written) ==
               /\ db' = written.db
               /\ qout' = [isError |-> written.err # "none", kind |-> "sync",
                           err |-> written.err]
       IN returns(writeTransaction(db, disk, q.results))
    /\ q' = [q EXCEPT !.overlaps = @ \/ pc \in {"scan", "parse"}]
    /\ qpc' = "done"
    /\ UNCHANGED <<disk, edits, resolverVars, storeVars, tx, pc, cachedFiles, onDiskFiles,
                   toDelete, toProcess, results, wpos, wphase, err, stmts, dbAtStart,
                   prevScan, passes, seen, dbAtWrite, work, wi>>

\* What the repository was when the store was last synced, and what it is
\* now: a file whose modification time is the old one has the old text.
PriorDisks == InitialDisks

LaterEntries(prior, p) ==
    {Absent, prior[p]}
    \cup {[v EXCEPT !.mtime = m] : v \in Versions(p),
                                    m \in {n \in 1..MaxMtime : n # prior[p].mtime}}

LaterDisks(prior) ==
    {[p \in Paths |->
        CASE p = PathA -> a
          [] p = PathB -> b
          [] p = PathC -> c
          [] OTHER -> prior[p]] :
     a \in LaterEntries(prior, PathA), b \in LaterEntries(prior, PathB),
     c \in LaterEntries(prior, PathC)}

InitOverlap ==
    /\ \E prior \in PriorDisks :
          /\ db = IndexOf(prior)
          /\ disk \in LaterDisks(prior)
    /\ StoreIdle
    /\ requireExtensions = NodeExtensions
    /\ ResolverIdle
    /\ SyncIdle
    /\ QueryIdle

NextOverlap ==
    \/ SyncBegin
    \/ SyncScan
    \/ SyncDelete
    \/ \E i \in 1..Len(results) : Parse(i)
    \/ WriteBegin
    \/ WriteDelete
    \/ WriteFile
    \/ WriteRows
    \/ WriteCommit
    \/ SyncReturn
    \/ SecondBegin
    \/ SecondScan
    \/ SecondParse
    \/ SecondWrite

SpecOverlap == InitOverlap /\ [][NextOverlap]_vars

\* The rows of file p without the row identities and the resolved paths,
\* and how many there are of each kind.
ParsedRows(d, p) ==
    [exports |-> {[name |-> e.name, kind |-> e.kind, start_line |-> e.start_line,
                   end_line |-> e.end_line, member |-> e.parent_id # NULL] :
                      e \in RowsOf(d, p).exports},
     imports |-> {[module_specifier |-> i.module_specifier,
                   imported_symbols |-> i.imported_symbols] : i \in RowsOf(d, p).imports},
     configs |-> {[key |-> c.key, value |-> c.value, kind |-> c.kind] :
                      c \in RowsOf(d, p).configs},
     content |-> {c.content : c \in {x \in d.content : x.file_path = p}},
     counts |-> << Cardinality(RowsOf(d, p).exports), Cardinality(RowsOf(d, p).imports),
                   Cardinality(RowsOf(d, p).configs),
                   Cardinality({x \in d.content : x.file_path = p}) >>]

BothCompleted ==
    /\ pc \in {"done", "idle"} /\ passes > 0 /\ err = "none"
    /\ qpc = "done" /\ ~ qout.isError

\* C28: two interleaved passes on one store.  Neither pass fails on a
\* uniqueness constraint, and when both have completed the store holds one
\* file row per path on disk and, for each file, the symbol, import-edge,
\* config and content rows of one parse of it, none of them twice.
C28_Interleaved ==
    /\ err # "unique"
    /\ qout.kind = "sync" => qout.err # "unique"
    /\ BothCompleted =>
          /\ FilePaths(db) = ScanPaths(scanRepo(disk))
          /\ Cardinality(db.files) = Cardinality(FilePaths(db))
          /\ \A i \in 1..Len(scanRepo(disk)) :
                LET meta == scanRepo(disk)[i]
                IN /\ \E f \in db.files : f.path = meta.path /\ f.mtime = meta.mtime
                   /\ ParsedRows(db, meta.path)
                        = ParsedRows(writeItem(EmptyDB, disk, parseTask(disk, meta)), meta.path)

\* Both passes read the same stale store, both rewrote the same two or more
\* files, one of them with symbols and members, and the second pass took
\* its steps while the first was suspended.
C28_Witness ==
    /\ BothCompleted
    /\ q.overlaps
    /\ q.cachedFiles = cachedFiles /\ cachedFiles # {}
    /\ q.toProcess = toProcess /\ Len(toProcess) >= 2
    /\ toDelete # {}
    /\ \E e \in db.exports : e.parent_id # NULL
    /\ db.imports # {}


\* C29: freshness of resolved paths.  When a pass has completed on the
\* files it scanned, every import row holds the path the resolver returns
\* for it on the current disk, and every resolved path that is not empty
\* names a file that has a file row.
C29_FreshPaths ==
    (pc = "done" /\ onDiskFiles = scanRepo(disk)
     /\ \A k \in 1..Len(toProcess) : seen[k] = disk[toProcess[k].path]) =>
        \A i \in db.imports :
           /\ i.resolved_path = resolveImportPath(disk, i.module_specifier, i.file_path)
           /\ i.resolved_path # NoPath => i.resolved_path \in FilePaths(db)


\* The specifier '@/lib' and the file it names under a base directory /r.
SpecAt == <<"@/", "lib">>
AtFile == join(RootDir, <<"@/", "lib", ".ts">>)

DiagnoseSpecifiers == Specifiers \cup {SpecAt}

DiagnoseDisks ==
    {[p \in ResolvePaths \cup {AtFile} |-> IF p = AtFile THEN at ELSE d[p]] :
        d \in ResolveDisks, at \in {Absent, PlainFile}}

\* One call of diagnoseResolution; q records the arguments, qout the outcome.
Diagnose(importSpecifier, importingFilePath) ==
    LET startsWithDot == importSpecifier # <<>> /\ Head(importSpecifier) = "./"
        returns(r) ==
            /\ resolverCache' = r.cache
            /\ firstContext' = IF startsWithDot THEN firstContext
                               ELSE Remembered(firstContext, disk, importingFilePath, r.value)
    IN /\ q.handler = "none"
       /\ q' = [handler |-> "diagnose", importSpecifier |-> importSpecifier,
                importingFilePath |-> importingFilePath]
       /\ qout' = [isError |-> diagnoseResolution(disk, importSpecifier,
                                                  importingFilePath).resolvedPath = Throws,
                   kind |-> "diagnostic",
                   result |-> diagnoseResolution(disk, importSpecifier, importingFilePath)]
       /\ returns(IF startsWithDot THEN [value |-> [resolver |-> "null"], cache |-> resolverCache]
                  ELSE initResolverCached(resolverCache, disk, importingFilePath))
       /\ UNCHANGED <<disk, edits, requireExtensions, storeVars, syncVars, qpc, work, wi>>

InitDiagnose ==
    /\ disk \in DiagnoseDisks
    /\ StoreIdle
    /\ requireExtensions \in {NodeExtensions, TsxExtensions}
    /\ ResolverIdle
    /\ db = EmptyDB
    /\ SyncIdle
    /\ QueryIdle

NextDiagnose ==
    \E s \in DiagnoseSpecifiers : \E f \in {ImporterPath, GonePath} : Diagnose(s, f)

SpecDiagnose == InitDiagnose /\ [][NextDiagnose]_vars

\* C30: diagnostic agreement.  diagnoseResolution reports resolved with
\* path p exactly when resolveImportPath, called with the same arguments on
\* the same disk, returns the path p, which is not empty.
C30_Agreement ==
    q.handler = "diagnose" =>
        LET p == resolveImportPath(disk, q.importSpecifier, q.importingFilePath)
        IN /\ qout.result.resolved <=> (p # NoPath /\ p # Throws)
           /\ qout.result.resolved => qout.result.resolvedPath = p

============================================================================
